---- MODULE Spec2Model ----
(***************************************************************************)
(* statiki: fixed-capacity containers.                                     *)
(*   - ring.rs         RingBuffer<T, C> with atomic cursors, used either   *)
(*                     through &mut self (owning mode) or through the      *)
(*                     Producer / Consumer handles returned by split()     *)
(*   - ring_buffer.rs  declare_ring_buffer!: RingBuffer<T> with plain      *)
(*                     cursors                                             *)
(*   - array.rs        Array<T, C>                                         *)
(* Each container has its own specification; the variables of the other    *)
(* containers stay at their initial value.                                 *)
(***************************************************************************)
EXTENDS Integers, Sequences, FiniteSets, TLC

(***************************************************************************)
(* Bounds.  usize is modelled as a word of WordBits bits so that cursor    *)
(* wrap-around happens within the bounds; the capacity is 2^CapBits and is *)
(* always smaller than the word (a Rust array cannot have 2^w elements).   *)
(***************************************************************************)
CapBits == 1

ExtraBits == 1

MaxCalls == 6

WordBits == CapBits + ExtraBits

WORD == 2 ^ WordBits

CAPACITY == 2 ^ CapBits

Slots == 0 .. (CAPACITY - 1)

\* Array<T, C>: the capacity, any number.
C == 3

\* Array<T, C>: the number of elements made for it.
MaxElems == C + 1

ArraySlots == 0 .. (C - 1)

Words == 0 .. (WORD - 1)

\* The values handed to the containers: the k-th call passes k, so that a
\* lost, duplicated, reordered or corrupted element is visible.
Values == 0 .. MaxCalls

\* Option<T>
None == <<>>

Some(v) == <<v>>

\* MaybeUninit<T>: an uninitialized slot, or a slot whose bytes are a value.
Uninit == <<>>

Init_(v) == <<v>>

\* WrappingAdd with a fault: the cursor wraps at the capacity.
WrappingAdd_AtCapacity(a, b) == (a + b) % CAPACITY

\* usize arithmetic
WrappingAdd(a, b) == (a + b) % WORD

WrappingSub(a, b) == (a - b + WORD) % WORD

RECURSIVE BitAnd(_, _)
BitAnd(a, b) ==
    IF a = 0 \/ b = 0 THEN 0
    ELSE (a % 2) * (b % 2) + 2 * BitAnd(a \div 2, b \div 2)

\* ring.rs: RingBuffer::mask_idx
MaskIdx(idx) == BitAnd(idx, CAPACITY - 1)

IsPrefix(s, t) == Len(s) <= Len(t) /\ SubSeq(t, 1, Len(s)) = s

\* Threads that hold the Producer (resp. Consumer) handle.  split() returns one
\* Producer and one Consumer; the test uses each from one thread.  Both handles
\* are Sync and their methods take &self, so safe code can also call one handle
\* from several threads through a shared reference.
Threads == {1, 2}

SpscThreads == {1}

SharedThreads == Threads

VARIABLES
    read, write, inner,                     \* RingBuffer<T, C>
    p_pc, p_idx, p_val, p_ret, p_steps,     \* inner_push in progress, per thread
    c_pc, c_idx, c_val, c_ret, c_steps,     \* inner_pop in progress, per thread
    calls, pushed, popped,                  \* observers: calls made, values accepted, values popped
    needs_drop,                             \* mem::needs_drop::<T>() of the element type
    o_op, o_ret, o_dropped,                 \* owning mode: last operation, its result, the values it dropped
    o_phase, o_run, o_got,                  \* owning mode: observer of test_ring_buffer's scenario
    overflow_checks,                        \* the build panics on integer overflow (debug) or wraps (release)
    m_read, m_write, m_inner,               \* declare_ring_buffer!: RingBuffer<T>
    m_op, m_ret, m_panic, m_dropped,        \* its last operation, result, whether it panicked, values it dropped
    m_phase, m_run, m_got,                  \* observer of ring_buffer.rs tests::test_ring_buffer's scenario
    a_len, a_inner,                         \* Array<T, C>
    a_op, a_ret, a_dropped,                 \* its last operation, result, values it dropped
    a_arg, a_panic,                         \* the operation's arguments, whether it panicked
    a_mode,                                 \* the Array is in use, moved into an ArrayConsumer, or dropped
    a_stored, a_out, a_drops,               \* observers: elements ever stored, elements handed to the caller, destructor runs per element
    a_phase, a_run, a_got,                  \* observer of a run of accepted pushes followed by pops
    it_cursor, it_src, it_got,              \* ArrayConsumer<T, C>: cursor; observers: the elements into_iter() took over, those next() returned
    b_len, b_inner, b_mode                  \* the Array returned by clone(), if any

ringVars == <<read, write, inner>>

prodVars == <<p_pc, p_idx, p_val, p_ret, p_steps>>

consVars == <<c_pc, c_idx, c_val, c_ret, c_steps>>

obsVars == <<calls, pushed, popped>>

typeVars == <<needs_drop, overflow_checks>>

macroVars == <<m_read, m_write, m_inner, m_op, m_ret, m_panic, m_dropped, m_phase, m_run, m_got>>

arrVars == <<a_len, a_inner, a_op, a_ret, a_dropped, a_arg, a_panic, a_mode,
            a_stored, a_out, a_drops, a_phase, a_run, a_got, it_cursor, it_src, it_got,
            b_len, b_inner, b_mode>>

ownVars == <<o_op, o_ret, o_dropped, o_phase, o_run, o_got>>

\* What the split-mode actions leave alone.
outsideSplit == <<typeVars, ownVars, macroVars, arrVars>>

\* What the owning-mode actions leave alone.
outsideOwn == <<typeVars, prodVars, consVars, pushed, popped, macroVars, arrVars>>

\* What the actions of the macro-generated RingBuffer leave alone.
outsideMacro == <<typeVars, ringVars, prodVars, consVars, pushed, popped, ownVars, arrVars>>

\* What the actions of Array leave alone.
outsideArray == <<typeVars, ringVars, prodVars, consVars, pushed, popped, ownVars, macroVars>>

vars == <<ringVars, prodVars, consVars, obsVars, typeVars, ownVars, macroVars, arrVars>>

\* RingBuffer::new
RingNew ==
    /\ read = 0
    /\ write = 0
    /\ inner = [i \in Slots |-> Uninit]

SplitInit ==
    /\ p_pc = [t \in Threads |-> "idle"]
    /\ p_idx = [t \in Threads |-> 0]
    /\ p_val = [t \in Threads |-> 0]
    /\ p_ret = [t \in Threads |-> None]
    /\ p_steps = [t \in Threads |-> 0]
    /\ c_pc = [t \in Threads |-> "idle"]
    /\ c_idx = [t \in Threads |-> 0]
    /\ c_val = [t \in Threads |-> 0]
    /\ c_ret = [t \in Threads |-> None]
    /\ c_steps = [t \in Threads |-> 0]
    /\ calls = 0
    /\ pushed = <<>>
    /\ popped = <<>>

OwnInit ==
    /\ o_op = "new"
    /\ o_ret = None
    /\ o_dropped = <<>>
    /\ o_phase = "push"
    /\ o_run = <<>>
    /\ o_got = <<>>

\* ring_buffer.rs: RingBuffer::new
MacroNew ==
    /\ m_read = 0
    /\ m_write = 0
    /\ m_inner = [i \in Slots |-> Uninit]
    /\ m_op = "new"
    /\ m_ret = None
    /\ m_panic = FALSE
    /\ m_dropped = <<>>
    /\ m_phase = "push"
    /\ m_run = <<>>
    /\ m_got = <<>>

\* array.rs: Array::new
ArrayNew ==
    /\ a_len = 0
    /\ a_inner = [i \in ArraySlots |-> Uninit]
    /\ a_op = "new"
    /\ a_ret = None
    /\ a_dropped = <<>>
    /\ a_arg = <<>>
    /\ a_panic = FALSE
    /\ a_mode = "array"
    /\ a_stored = {}
    /\ a_out = {}
    /\ a_drops = [h \in Values |-> 0]
    /\ a_phase = "off"
    /\ a_run = <<>>
    /\ a_got = <<>>
    /\ it_cursor = 0
    /\ it_src = <<>>
    /\ it_got = <<>>
    /\ b_len = 0
    /\ b_inner = [i \in ArraySlots |-> Uninit]
    /\ b_mode = "none"

Init ==
    /\ needs_drop \in BOOLEAN
    /\ overflow_checks \in BOOLEAN
    /\ RingNew
    /\ SplitInit
    /\ OwnInit
    /\ MacroNew
    /\ ArrayNew

(***************************************************************************)
(* Producer::try_push(value) = inner_push(value, Acquire, Release), one    *)
(* action per memory access.  The branch on `remaning` is local to the     *)
(* thread and is taken in the step that loads `read`.                      *)
(* The cursors are atomics: each load and store is one step, and a thread's *)
(* steps happen in program order (the Release store of a cursor comes      *)
(* after the slot access before it, the Acquire load before the slot       *)
(* access after it).                                                       *)
(***************************************************************************)
\* let idx = self.write.load(Relaxed)
P_LoadWrite(t, v) ==
    /\ p_pc[t] = "idle"
    /\ p_idx' = [p_idx EXCEPT ![t] = write]
    /\ p_val' = [p_val EXCEPT ![t] = v]
    /\ p_steps' = [p_steps EXCEPT ![t] = 1]
    /\ p_pc' = [p_pc EXCEPT ![t] = "ld_read"]
    /\ UNCHANGED <<ringVars, p_ret, consVars, pushed, popped, outsideSplit>>

\* P_LoadRead with a fault: a full ring evicts the oldest element (what the owning
\* push does) instead of rejecting.
P_LoadRead_Evict(t) ==
    /\ p_pc[t] = "ld_read"
    /\ p_steps' = [p_steps EXCEPT ![t] = @ + 1]
    /\ IF WrappingSub(p_idx[t], read) # CAPACITY
       THEN UNCHANGED read
       ELSE read' = WrappingAdd(read, 1)
    /\ p_pc' = [p_pc EXCEPT ![t] = "slot"]
    /\ UNCHANGED <<write, inner, p_idx, p_val, p_ret, consVars, obsVars, outsideSplit>>

\* P_LoadRead with a fault: the fullness test is missing.
P_LoadRead_NoCheck(t) ==
    /\ p_pc[t] = "ld_read"
    /\ p_steps' = [p_steps EXCEPT ![t] = @ + 1]
    /\ p_pc' = [p_pc EXCEPT ![t] = "slot"]
    /\ UNCHANGED <<ringVars, p_idx, p_val, p_ret, consVars, obsVars, outsideSplit>>

\* let remaning = idx.wrapping_sub(self.read.load(Acquire));
\* if remaning != CAPACITY { .. } else { Some(value) }
P_LoadRead(t) ==
    /\ p_pc[t] = "ld_read"
    /\ p_steps' = [p_steps EXCEPT ![t] = @ + 1]
    /\ IF WrappingSub(p_idx[t], read) # CAPACITY
       THEN /\ p_pc' = [p_pc EXCEPT ![t] = "slot"]
            /\ UNCHANGED p_ret
       ELSE /\ p_pc' = [p_pc EXCEPT ![t] = "idle"]
            /\ p_ret' = [p_ret EXCEPT ![t] = Some(p_val[t])]
    /\ UNCHANGED <<ringVars, p_idx, p_val, consVars, obsVars, outsideSplit>>

\* P_WriteSlot with a fault: the slot is not written.
P_WriteSlot_Skip(t) ==
    /\ p_pc[t] = "slot"
    /\ p_steps' = [p_steps EXCEPT ![t] = @ + 1]
    /\ p_pc' = [p_pc EXCEPT ![t] = "store"]
    /\ UNCHANGED <<ringVars, p_idx, p_val, p_ret, consVars, obsVars, outsideSplit>>

\* self.inner.get_unchecked(mask_idx(idx)).get().write(MaybeUninit::new(value))
P_WriteSlot(t) ==
    /\ p_pc[t] = "slot"
    /\ inner' = [inner EXCEPT ![MaskIdx(p_idx[t])] = Init_(p_val[t])]
    /\ p_steps' = [p_steps EXCEPT ![t] = @ + 1]
    /\ p_pc' = [p_pc EXCEPT ![t] = "store"]
    /\ UNCHANGED <<read, write, p_idx, p_val, p_ret, consVars, obsVars, outsideSplit>>

\* P_StoreWrite with a fault: the cursor stored is the slot index of the next
\* position, so it wraps at the capacity.
P_StoreWrite_Masked(t) ==
    /\ p_pc[t] = "store"
    /\ write' = MaskIdx(WrappingAdd(p_idx[t], 1))
    /\ p_ret' = [p_ret EXCEPT ![t] = None]
    /\ pushed' = Append(pushed, p_val[t])
    /\ p_steps' = [p_steps EXCEPT ![t] = @ + 1]
    /\ p_pc' = [p_pc EXCEPT ![t] = "idle"]
    /\ UNCHANGED <<read, inner, p_idx, p_val, consVars, calls, popped, outsideSplit>>

\* self.write.store(idx.wrapping_add(1), Release); None
P_StoreWrite(t) ==
    /\ p_pc[t] = "store"
    /\ write' = WrappingAdd(p_idx[t], 1)
    /\ p_ret' = [p_ret EXCEPT ![t] = None]
    /\ pushed' = Append(pushed, p_val[t])
    /\ p_steps' = [p_steps EXCEPT ![t] = @ + 1]
    /\ p_pc' = [p_pc EXCEPT ![t] = "idle"]
    /\ UNCHANGED <<read, inner, p_idx, p_val, consVars, calls, popped, outsideSplit>>

\* ProducerStep with a fault: on a full ring the producer waits for the consumer,
\* loading `read` again until there is room.
ProducerStep_Retry(t) ==
    \/ /\ p_pc[t] = "ld_read"
       /\ WrappingSub(p_idx[t], read) = CAPACITY
       /\ p_steps' = [p_steps EXCEPT ![t] = @ + 1]
       /\ UNCHANGED <<ringVars, p_pc, p_idx, p_val, p_ret, consVars, obsVars, outsideSplit>>
    \/ /\ WrappingSub(p_idx[t], read) # CAPACITY
       /\ P_LoadRead(t)
    \/ P_WriteSlot(t)
    \/ P_StoreWrite(t)

\* One step of a try_push that is in progress.
ProducerStep(t) == P_LoadRead(t) \/ P_WriteSlot(t) \/ P_StoreWrite(t)

(***************************************************************************)
(* Consumer::pop() = inner_pop(Acquire, Release), one action per memory    *)
(* access.                                                                 *)
(***************************************************************************)
\* let idx = self.read.load(Relaxed)
C_LoadRead(t) ==
    /\ c_pc[t] = "idle"
    /\ c_idx' = [c_idx EXCEPT ![t] = read]
    /\ c_steps' = [c_steps EXCEPT ![t] = 1]
    /\ c_pc' = [c_pc EXCEPT ![t] = "ld_write"]
    /\ UNCHANGED <<ringVars, c_val, c_ret, prodVars, obsVars, outsideSplit>>

\* C_LoadWrite with a fault: the emptiness test compares slot indices instead of
\* cursors, so a full ring (write - read = CAPACITY) looks empty.
C_LoadWrite_Masked(t) ==
    /\ c_pc[t] = "ld_write"
    /\ c_steps' = [c_steps EXCEPT ![t] = @ + 1]
    /\ IF MaskIdx(c_idx[t]) # MaskIdx(write)
       THEN /\ c_pc' = [c_pc EXCEPT ![t] = "slot"]
            /\ UNCHANGED c_ret
       ELSE /\ c_pc' = [c_pc EXCEPT ![t] = "idle"]
            /\ c_ret' = [c_ret EXCEPT ![t] = None]
    /\ UNCHANGED <<ringVars, c_idx, c_val, prodVars, obsVars, outsideSplit>>

\* C_LoadWrite with a fault: the emptiness test is missing.
C_LoadWrite_NoCheck(t) ==
    /\ c_pc[t] = "ld_write"
    /\ c_steps' = [c_steps EXCEPT ![t] = @ + 1]
    /\ c_pc' = [c_pc EXCEPT ![t] = "slot"]
    /\ UNCHANGED <<ringVars, c_idx, c_val, c_ret, prodVars, obsVars, outsideSplit>>

\* if idx != self.write.load(Acquire) { .. } else { None }
C_LoadWrite(t) ==
    /\ c_pc[t] = "ld_write"
    /\ c_steps' = [c_steps EXCEPT ![t] = @ + 1]
    /\ IF c_idx[t] # write
       THEN /\ c_pc' = [c_pc EXCEPT ![t] = "slot"]
            /\ UNCHANGED c_ret
       ELSE /\ c_pc' = [c_pc EXCEPT ![t] = "idle"]
            /\ c_ret' = [c_ret EXCEPT ![t] = None]
    /\ UNCHANGED <<ringVars, c_idx, c_val, prodVars, obsVars, outsideSplit>>

\* C_ReadSlot with a fault: the slot read is the one after the read cursor's.
C_ReadSlot_Next(t) ==
    /\ c_pc[t] = "slot"
    /\ \E v \in Values :
          /\ inner[MaskIdx(WrappingAdd(c_idx[t], 1))] # Uninit
                => Init_(v) = inner[MaskIdx(WrappingAdd(c_idx[t], 1))]
          /\ c_val' = [c_val EXCEPT ![t] = v]
    /\ c_steps' = [c_steps EXCEPT ![t] = @ + 1]
    /\ c_pc' = [c_pc EXCEPT ![t] = "store"]
    /\ UNCHANGED <<ringVars, c_idx, c_ret, prodVars, obsVars, outsideSplit>>

\* let value = (self.inner.get_unchecked(mask_idx(idx)).get() as *const T).read()
\* Reading a slot that was never written is undefined behaviour: any value.
C_ReadSlot(t) ==
    /\ c_pc[t] = "slot"
    /\ \E v \in Values :
          /\ inner[MaskIdx(c_idx[t])] # Uninit => Init_(v) = inner[MaskIdx(c_idx[t])]
          /\ c_val' = [c_val EXCEPT ![t] = v]
    /\ c_steps' = [c_steps EXCEPT ![t] = @ + 1]
    /\ c_pc' = [c_pc EXCEPT ![t] = "store"]
    /\ UNCHANGED <<ringVars, c_idx, c_ret, prodVars, obsVars, outsideSplit>>

\* C_StoreRead with a fault: the read cursor is published without the increment.
C_StoreRead_NoAdvance(t) ==
    /\ c_pc[t] = "store"
    /\ read' = c_idx[t]
    /\ c_ret' = [c_ret EXCEPT ![t] = Some(c_val[t])]
    /\ popped' = Append(popped, c_val[t])
    /\ c_steps' = [c_steps EXCEPT ![t] = @ + 1]
    /\ c_pc' = [c_pc EXCEPT ![t] = "idle"]
    /\ UNCHANGED <<write, inner, c_idx, c_val, prodVars, calls, pushed, outsideSplit>>

\* self.read.store(idx.wrapping_add(1), Release); Some(value)
C_StoreRead(t) ==
    /\ c_pc[t] = "store"
    /\ read' = WrappingAdd(c_idx[t], 1)
    /\ c_ret' = [c_ret EXCEPT ![t] = Some(c_val[t])]
    /\ popped' = Append(popped, c_val[t])
    /\ c_steps' = [c_steps EXCEPT ![t] = @ + 1]
    /\ c_pc' = [c_pc EXCEPT ![t] = "idle"]
    /\ UNCHANGED <<write, inner, c_idx, c_val, prodVars, calls, pushed, outsideSplit>>

\* One step of a pop that is in progress.
ConsumerStep(t) == C_LoadWrite(t) \/ C_ReadSlot(t) \/ C_StoreRead(t)

(***************************************************************************)
(* Split mode, one producer thread and one consumer thread.  The producer  *)
(* makes at most MaxCalls calls, the k-th with value k; the consumer polls *)
(* freely.                                                                 *)
(***************************************************************************)
ProducerCall(t) ==
    /\ calls < MaxCalls
    /\ P_LoadWrite(t, calls)
    /\ calls' = calls + 1

ConsumerCall(t) == C_LoadRead(t)

NextSplit ==
    \E t \in SpscThreads :
        \/ ProducerCall(t)
        \/ ProducerStep(t)
        \/ ConsumerCall(t)
        \/ ConsumerStep(t)

SpecSplit == Init /\ [][NextSplit]_vars

\* Number of elements between the cursors, as RingBuffer::size computes it.
Size == WrappingSub(write, read)

\* C1: with one producer thread and one consumer thread interleaved at the
\* level of the single loads, slot accesses and stores, the values returned by
\* successful pops are at every moment a prefix of the values accepted by
\* try_push.
C1_PoppedPrefixOfPushed == IsPrefix(popped, pushed)

\* C1 witness: more values than the ring has slots were popped (every slot was
\* reused) while a try_push is in the middle of writing a slot.
C1_Witness ==
    /\ Len(popped) > CAPACITY
    /\ p_pc[1] = "store"
    /\ c_pc[1] = "slot"

\* C3: a Producer::try_push that finds the ring full (write - read = CAPACITY)
\* returns the value it was given and leaves write, read and every slot as they
\* were; no step of try_push changes read, and a step of try_push that writes a
\* slot leaves every unread element in place.
C3_FullRejectsWithoutEviction ==
    [][\A t \in SpscThreads :
          /\ (p_pc[t] = "ld_read" /\ p_pc'[t] # "ld_read" /\ Size = CAPACITY)
                => /\ p_pc'[t] = "idle"
                   /\ p_ret'[t] = Some(calls - 1)
                   /\ UNCHANGED <<read, write, inner, pushed>>
          /\ p_pc'[t] # p_pc[t] => read' = read
          /\ (p_pc'[t] # p_pc[t] /\ inner' # inner)
                => \A k \in 0 .. (Size - 1) :
                      inner'[MaskIdx(WrappingAdd(read, k))]
                          = inner[MaskIdx(WrappingAdd(read, k))]
    ]_vars

\* C3 witness: a try_push has just been rejected on a full ring.
C3_Witness ==
    /\ calls > 0
    /\ p_pc[1] = "idle"
    /\ p_ret[1] = Some(calls - 1)
    /\ Size = CAPACITY
    /\ Len(pushed) > CAPACITY

\* C5: an operation in progress can always take its next step, whatever the
\* other thread is doing; it returns after 2 steps (full / empty) or 4 steps
\* (load own cursor, load the other cursor, slot access, cursor store) and never
\* takes more; the system never deadlocks.
C5_SingleBoundedAttempt ==
    /\ \A t \in SpscThreads :
          /\ p_pc[t] # "idle" => ENABLED ProducerStep(t)
          /\ c_pc[t] # "idle" => ENABLED ConsumerStep(t)
          /\ p_steps[t] <= 4
          /\ c_steps[t] <= 4
          /\ p_pc[t] = "idle" => p_steps[t] \in {0, 2, 4}
          /\ c_pc[t] = "idle" => c_steps[t] \in {0, 2, 4}
    /\ ENABLED NextSplit

\* C5 witness: a try_push ran from call to return (4 steps, on a ring with one
\* free slot) while the consumer stood still in the middle of a pop.
C5_Witness ==
    /\ p_pc[1] = "idle"
    /\ p_steps[1] = 4
    /\ p_ret[1] = None
    /\ c_pc[1] = "store"
    /\ Len(pushed) = Len(popped) + CAPACITY

(***************************************************************************)
(* tests/ring.rs: test_ring_buffer_as_spcs.  The producer retries          *)
(* try_push(idx) for idx in 0..=LastValue until it is accepted; the        *)
(* consumer retries pop until it receives LastValue.  LastValue + 1 is     *)
(* larger than the capacity, as 521 is larger than 512 in the test.        *)
(***************************************************************************)
LastValue == CAPACITY + 1

\* for idx in 0..=520 { loop { if producer.try_push(idx).is_none() { break; } } }
TestProducerCall ==
    /\ Len(pushed) <= LastValue
    /\ P_LoadWrite(1, Len(pushed))
    /\ UNCHANGED calls

\* loop { match consumer.pop() { Some(520) => break, _ => continue } }
TestConsumerCall ==
    /\ c_ret[1] # Some(LastValue)
    /\ C_LoadRead(1)

TestProducer == TestProducerCall \/ ProducerStep(1)

TestConsumer == TestConsumerCall \/ ConsumerStep(1)

NextTest == TestProducer \/ TestConsumer

\* Both threads are scheduled by the operating system: each keeps running
\* while it has a step to take.
SpecTest ==
    Init /\ [][NextTest]_vars /\ WF_vars(TestProducer) /\ WF_vars(TestConsumer)

TestDone ==
    /\ p_pc[1] = "idle"
    /\ Len(pushed) = LastValue + 1
    /\ c_pc[1] = "idle"
    /\ c_ret[1] = Some(LastValue)

\* C2: under weak fairness of the producer thread and of the consumer thread
\* the test terminates: eventually the consumer has received LastValue and
\* both loops are finished.
C2_TestTerminates == <>TestDone

\* C2 witness: both loops finished, after LastValue + 1 > CAPACITY values went
\* through the ring.
C2_Witness ==
    /\ TestDone
    /\ Len(popped) = LastValue + 1
    /\ Len(popped) > CAPACITY

(***************************************************************************)
(* Producer and Consumer are Sync and try_push / pop take &self: a         *)
(* reference to the one Producer (or Consumer) of a split can be handed to *)
(* several threads of a std::thread::scope, and each of them can call it.  *)
(***************************************************************************)
MaxSharedCalls == 3

SharedProducerCall(t) ==
    /\ calls < MaxSharedCalls
    /\ P_LoadWrite(t, calls)
    /\ calls' = calls + 1

SharedConsumerCall(t) ==
    /\ Len(popped) < MaxSharedCalls
    /\ C_LoadRead(t)

NextShared ==
    \E t \in SharedThreads :
        \/ SharedProducerCall(t)
        \/ ProducerStep(t)
        \/ SharedConsumerCall(t)
        \/ ConsumerStep(t)

SpecShared == Init /\ [][NextShared]_vars

\* C4 (as claimed): at any time at most one try_push and at most one pop is in
\* progress on the ring.
C4_OneProducerOneConsumer ==
    /\ Cardinality({t \in Threads : p_pc[t] # "idle"}) <= 1
    /\ Cardinality({t \in Threads : c_pc[t] # "idle"}) <= 1

(***************************************************************************)
(* Owning mode: push, try_push, pop and clear take &mut self, so each runs *)
(* alone, from call to return, on the cursors and slots.  The k-th pushed  *)
(* value is k.                                                             *)
(***************************************************************************)
\* RingBuffer::is_empty
IsEmpty == write = read

\* RingBuffer::is_full
IsFull == Size = CAPACITY

\* The slots between the cursors, oldest first.
Contents == [i \in 1 .. Size |-> inner[MaskIdx(WrappingAdd(read, i - 1))]]

\* ptr.read() of a slot: its value; any value if the slot was never written.
SlotValues(i) == IF inner[i] = Uninit THEN Values ELSE {inner[i][1]}

\* Observer of tests/ring.rs test_ring_buffer: o_run are the values pushed in a
\* row since the ring was empty, o_got the results of the pops that followed
\* them in a row (at most CAPACITY + 1 of them are recorded).
RunPush(v) ==
    /\ o_got' = <<>>
    /\ IF o_phase = "push" THEN /\ o_phase' = "push"
                                /\ o_run' = Append(o_run, v)
       ELSE IF IsEmpty THEN /\ o_phase' = "push"
                            /\ o_run' = <<v>>
       ELSE /\ o_phase' = "off"
            /\ o_run' = <<>>

RunPop(ret) ==
    IF o_phase \in {"push", "pop"} /\ Len(o_got) <= CAPACITY
    THEN /\ o_phase' = "pop"
         /\ o_got' = Append(o_got, ret)
         /\ UNCHANGED o_run
    ELSE /\ o_phase' = "off"
         /\ o_run' = <<>>
         /\ o_got' = <<>>

RunOff ==
    /\ o_phase' = "off"
    /\ o_run' = <<>>
    /\ o_got' = <<>>

RunRestart ==
    /\ o_phase' = "push"
    /\ o_run' = <<>>
    /\ o_got' = <<>>

\* Push with a fault: a push onto a full ring overwrites the oldest slot without
\* advancing read.
Push_NoEvict(v) ==
    /\ write' = WrappingAdd(write, 1)
    /\ UNCHANGED read
    /\ o_dropped' = <<>>
    /\ inner' = [inner EXCEPT ![MaskIdx(write)] = Init_(v)]
    /\ o_op' = "push"
    /\ o_ret' = None
    /\ RunPush(v)
    /\ UNCHANGED outsideOwn

\* RingBuffer::push
\*   let write = self.write.fetch_add(1, Relaxed);
\*   let read = self.read.load(Relaxed);
\*   if write.wrapping_sub(read) == CAPACITY { drop(slot[read]); read.store(read + 1) }
\*   slot[write] = value
Push(v) ==
    /\ write' = WrappingAdd(write, 1)
    /\ IF WrappingSub(write, read) = CAPACITY
       THEN /\ \E old \in SlotValues(MaskIdx(read)) : o_dropped' = <<old>>
            /\ read' = WrappingAdd(read, 1)
       ELSE /\ o_dropped' = <<>>
            /\ UNCHANGED read
    /\ inner' = [inner EXCEPT ![MaskIdx(write)] = Init_(v)]
    /\ o_op' = "push"
    /\ o_ret' = None
    /\ RunPush(v)
    /\ UNCHANGED outsideOwn

\* TryPush with a fault: the fullness test is missing.
TryPush_NoCheck(v) ==
    /\ inner' = [inner EXCEPT ![MaskIdx(write)] = Init_(v)]
    /\ write' = WrappingAdd(write, 1)
    /\ o_ret' = None
    /\ UNCHANGED read
    /\ o_op' = "try_push"
    /\ o_dropped' = <<>>
    /\ RunOff
    /\ UNCHANGED outsideOwn

\* RingBuffer::try_push = inner_push(value, Relaxed, Relaxed)
TryPush(v) ==
    /\ IF WrappingSub(write, read) # CAPACITY
       THEN /\ inner' = [inner EXCEPT ![MaskIdx(write)] = Init_(v)]
            /\ write' = WrappingAdd(write, 1)
            /\ o_ret' = None
       ELSE /\ UNCHANGED <<inner, write>>
            /\ o_ret' = Some(v)
    /\ UNCHANGED read
    /\ o_op' = "try_push"
    /\ o_dropped' = <<>>
    /\ RunOff
    /\ UNCHANGED outsideOwn

\* Pop with a fault: the read cursor is advanced before the slot is read.
Pop_AdvanceFirst ==
    /\ IF read # write
       THEN /\ \E v \in SlotValues(MaskIdx(WrappingAdd(read, 1))) :
                  /\ o_ret' = Some(v)
                  /\ RunPop(Some(v))
            /\ read' = WrappingAdd(read, 1)
       ELSE /\ o_ret' = None
            /\ RunPop(None)
            /\ UNCHANGED read
    /\ UNCHANGED <<write, inner>>
    /\ o_op' = "pop"
    /\ o_dropped' = <<>>
    /\ UNCHANGED <<calls, outsideOwn>>

\* RingBuffer::pop = inner_pop(Relaxed, Relaxed)
Pop ==
    /\ IF read # write
       THEN /\ \E v \in SlotValues(MaskIdx(read)) :
                  /\ o_ret' = Some(v)
                  /\ RunPop(Some(v))
            /\ read' = WrappingAdd(read, 1)
       ELSE /\ o_ret' = None
            /\ RunPop(None)
            /\ UNCHANGED read
    /\ UNCHANGED <<write, inner>>
    /\ o_op' = "pop"
    /\ o_dropped' = <<>>
    /\ UNCHANGED <<calls, outsideOwn>>

\* RingBuffer::clear
\*   if needs_drop::<T>() { for _ in 0..self.size() { self.pop_unchecked(); } }
\*   else { self.read.store(self.write.load()) }
\* pop_unchecked reads slot mask_idx(read.fetch_add(1)); its result is dropped.
Clear ==
    /\ IF needs_drop
       THEN /\ read' = WrappingAdd(read, Size)
            /\ \E d \in [1 .. Size -> Values] :
                  /\ \A i \in 1 .. Size :
                        d[i] \in SlotValues(MaskIdx(WrappingAdd(read, i - 1)))
                  /\ o_dropped' = d
       ELSE /\ read' = write
            /\ o_dropped' = <<>>
    /\ UNCHANGED <<write, inner>>
    /\ o_op' = "clear"
    /\ o_ret' = None
    /\ RunRestart
    /\ UNCHANGED <<calls, outsideOwn>>

OwnPush ==
    /\ calls < MaxCalls
    /\ Push(calls)
    /\ calls' = calls + 1

OwnTryPush ==
    /\ calls < MaxCalls
    /\ TryPush(calls)
    /\ calls' = calls + 1

NextOwn == OwnPush \/ OwnTryPush \/ Pop \/ Clear

SpecOwn == Init /\ [][NextOwn]_vars

\* C6: after C + N pushes (N > 0) into an empty ring, size() is C, the next C
\* pops return the elements numbered N .. C+N in the order they were pushed and
\* the pop after them returns nothing; the last of such pushes dropped exactly
\* one element, the oldest one.
C6_OverflowKeepsNewest ==
    (o_phase \in {"push", "pop"} /\ Len(o_run) > CAPACITY) =>
        LET n == Len(o_run) - CAPACITY
            survivors == SubSeq(o_run, n + 1, Len(o_run))
        IN  /\ o_phase = "push" =>
                  /\ Size = CAPACITY
                  /\ o_dropped = <<o_run[n]>>
            /\ \A i \in 1 .. Len(o_got) :
                  o_got[i] = IF i <= CAPACITY THEN Some(survivors[i]) ELSE None

\* C6 witness: C + N pushes with N > 1 went into an empty ring, so many that the
\* write cursor wrapped around the word, and C + 1 pops followed.
C6_Witness ==
    /\ o_phase = "pop"
    /\ Len(o_run) > CAPACITY + 1
    /\ Len(o_got) = CAPACITY + 1
    /\ Len(o_run) >= WORD

\* C7: try_push on a full ring returns the value and changes neither the
\* cursors nor the slots; otherwise it returns nothing, the value becomes the
\* newest element behind the elements already stored, and size() grows by one.
C7_TryPushRejectsOrAppends ==
    [][(o_op' = "try_push" /\ calls' # calls) =>
          IF Size = CAPACITY
          THEN /\ o_ret' = Some(calls)
               /\ UNCHANGED <<read, write, inner>>
               /\ Size' = CAPACITY
               /\ Contents' = Contents
               /\ o_dropped' = <<>>
          ELSE /\ o_ret' = None
               /\ Contents' = Append(Contents, Init_(calls))
               /\ Size' = Size + 1
               /\ o_dropped' = <<>>
    ]_vars

\* C7 witness: a try_push was rejected by a full ring that earlier overflowing
\* pushes and pops had moved away from slot 0.
C7_Witness ==
    /\ o_op = "try_push"
    /\ o_ret = Some(calls - 1)
    /\ Size = CAPACITY
    /\ MaskIdx(read) # 0

\* C8: pop with read = write returns nothing and changes neither the cursors
\* nor the slots; otherwise it returns the element in the slot of position
\* read, advances read by one (wrapping at the word) and leaves write alone.
C8_PopOldestOrNothing ==
    [][(o_op' = "pop" /\ vars' # vars) =>
          IF read = write
          THEN /\ o_ret' = None
               /\ UNCHANGED <<read, write, inner>>
          ELSE /\ o_ret' = Contents[1]
               /\ o_ret' = inner[MaskIdx(read)]
               /\ o_ret' # None
               /\ read' = (read + 1) % WORD
               /\ write' = write
               /\ Contents' = Tail(Contents)
    ]_vars

\* C8 witness: a pop returned an element while the read cursor wrapped from the
\* largest word back to 0.
C8_Witness ==
    /\ o_op = "pop"
    /\ o_ret # None
    /\ read = 0
    /\ write # 0

(***************************************************************************)
(* ring_buffer.rs, declare_ring_buffer!(capacity): RingBuffer<T> with      *)
(* plain usize cursors.  `capacity` must be a power of two (push and pop   *)
(* debug_assert it).  The k-th pushed value is k.                          *)
(***************************************************************************)
\* RingBuffer::mask_idx
MMaskIdx(idx) == BitAnd(idx, CAPACITY - 1)

\* RingBuffer::size is `self.write - self.read`, a plain subtraction: with
\* write < read it panics in a build with overflow checks and wraps otherwise.
MSizeOverflows == m_write < m_read

MSizePanics == overflow_checks /\ MSizeOverflows

MSize == WrappingSub(m_write, m_read)

\* RingBuffer::is_empty
MIsEmpty == m_write = m_read

\* RingBuffer::is_full
MIsFull == MSize = CAPACITY

\* ptr read of a slot: its value; any value if the slot was never written.
MSlotValues(i) == IF m_inner[i] = Uninit THEN Values ELSE {m_inner[i][1]}

\* Observer of tests::test_ring_buffer, as for the atomic ring.
MRunPush(v) ==
    /\ m_got' = <<>>
    /\ IF m_phase = "push" THEN /\ m_phase' = "push"
                                /\ m_run' = Append(m_run, v)
       ELSE IF MIsEmpty THEN /\ m_phase' = "push"
                             /\ m_run' = <<v>>
       ELSE /\ m_phase' = "off"
            /\ m_run' = <<>>

MRunPop(ret) ==
    IF m_phase \in {"push", "pop"} /\ Len(m_got) <= CAPACITY
    THEN /\ m_phase' = "pop"
         /\ m_got' = Append(m_got, ret)
         /\ UNCHANGED m_run
    ELSE /\ m_phase' = "off"
         /\ m_run' = <<>>
         /\ m_got' = <<>>

MRunOff ==
    /\ m_phase' = "off"
    /\ m_run' = <<>>
    /\ m_got' = <<>>

MRunRestart ==
    /\ m_phase' = "push"
    /\ m_run' = <<>>
    /\ m_got' = <<>>

\* MPush with a fault: a push onto a full buffer does not take the oldest
\* element out.
MPush_NoEvict(v) ==
    /\ m_op' = "push"
    /\ m_ret' = None
    /\ IF MSizePanics
       THEN /\ m_panic' = TRUE
            /\ m_dropped' = <<>>
            /\ UNCHANGED <<m_read, m_write, m_inner, m_phase, m_run, m_got>>
       ELSE /\ m_panic' = FALSE
            /\ m_dropped' = <<>>
            /\ UNCHANGED m_read
            /\ m_inner' = [m_inner EXCEPT ![MMaskIdx(m_write)] = Init_(v)]
            /\ m_write' = WrappingAdd(m_write, 1)
            /\ MRunPush(v)
    /\ UNCHANGED outsideMacro

\* RingBuffer::push
\*   if self.is_full() { self.pop_unchecked(); }
\*   ptr::write(self.as_mut_elem(self.write), value);
\*   self.write = self.write.wrapping_add(1);
MPush(v) ==
    /\ m_op' = "push"
    /\ m_ret' = None
    /\ IF MSizePanics
       THEN /\ m_panic' = TRUE
            /\ m_dropped' = <<>>
            /\ UNCHANGED <<m_read, m_write, m_inner, m_phase, m_run, m_got>>
       ELSE /\ m_panic' = FALSE
            /\ IF MIsFull
               THEN /\ \E old \in MSlotValues(MMaskIdx(m_read)) : m_dropped' = <<old>>
                    /\ m_read' = WrappingAdd(m_read, 1)
               ELSE /\ m_dropped' = <<>>
                    /\ UNCHANGED m_read
            /\ m_inner' = [m_inner EXCEPT ![MMaskIdx(m_write)] = Init_(v)]
            /\ m_write' = WrappingAdd(m_write, 1)
            /\ MRunPush(v)
    /\ UNCHANGED outsideMacro

\* RingBuffer::pop
\*   if self.is_empty() { None } else { Some(self.pop_unchecked()) }
\* pop_unchecked copies slot mask_idx(read) out and sets read = read.wrapping_add(1)
MPop ==
    /\ m_op' = "pop"
    /\ m_panic' = FALSE
    /\ m_dropped' = <<>>
    /\ IF MIsEmpty
       THEN /\ m_ret' = None
            /\ MRunPop(None)
            /\ UNCHANGED m_read
       ELSE /\ \E v \in MSlotValues(MMaskIdx(m_read)) :
                  /\ m_ret' = Some(v)
                  /\ MRunPop(Some(v))
            /\ m_read' = WrappingAdd(m_read, 1)
    /\ UNCHANGED <<m_write, m_inner>>
    /\ UNCHANGED <<calls, outsideMacro>>

\* RingBuffer::clear
\*   if needs_drop::<T>() { for _ in 0..self.size() { self.pop_unchecked(); } }
\*   else { self.read = self.write }
MClear ==
    /\ m_op' = "clear"
    /\ m_ret' = None
    /\ IF needs_drop /\ MSizePanics
       THEN /\ m_panic' = TRUE
            /\ m_dropped' = <<>>
            /\ UNCHANGED <<m_read, m_phase, m_run, m_got>>
       ELSE /\ m_panic' = FALSE
            /\ m_read' = m_write
            /\ IF needs_drop
               THEN \E d \in [1 .. MSize -> Values] :
                       /\ \A i \in 1 .. MSize :
                             d[i] \in MSlotValues(MMaskIdx(WrappingAdd(m_read, i - 1)))
                       /\ m_dropped' = d
               ELSE m_dropped' = <<>>
            /\ MRunRestart
    /\ UNCHANGED <<m_write, m_inner>>
    /\ UNCHANGED <<calls, outsideMacro>>

MacroPush ==
    /\ calls < MaxCalls
    /\ MPush(calls)
    /\ calls' = calls + 1

NextMacro == MacroPush \/ MPop \/ MClear

SpecMacro == Init /\ [][NextMacro]_vars

\* C9 (as claimed): push never fails; after C + N pushes in a row into an empty
\* buffer every push past the C-th dropped exactly the oldest element, and the
\* pops that follow return the elements numbered N .. C+N in push order, then
\* nothing.
C9_MacroPushNeverFailsEvictsOldest ==
    /\ m_op = "push" => ~m_panic
    /\ (m_phase \in {"push", "pop"} /\ Len(m_run) > CAPACITY) =>
          LET n == Len(m_run) - CAPACITY
              survivors == SubSeq(m_run, n + 1, Len(m_run))
          IN  /\ m_phase = "push" =>
                    /\ MSize = CAPACITY
                    /\ m_dropped = <<m_run[n]>>
              /\ \A i \in 1 .. Len(m_got) :
                    m_got[i] = IF i <= CAPACITY THEN Some(survivors[i]) ELSE None

(***************************************************************************)
(* array.rs: Array<T, C>.  The k-th element handed to the container is k;  *)
(* for an element type with a destructor the number stands for the         *)
(* resource the element owns, so that two copies of the same bytes are the *)
(* same resource.  Only the slots below len are live.  ptr::read and        *)
(* drop_in_place leave bytes behind in the slot, but no element: the slot  *)
(* is uninitialized again, and a read of it yields any value.              *)
(***************************************************************************)
iterVars == <<it_cursor, it_src, it_got>>

cloneVars == <<b_len, b_inner, b_mode>>

runVars == <<a_phase, a_run, a_got>>

\* Array::as_slice: the live elements, index 0 first.
AsSlice == [i \in 1 .. a_len |-> a_inner[i - 1]]

\* ptr::read of a slot: its value; any value if the slot was never written.
ArrSlotValues(i) == IF a_inner[i] = Uninit THEN Values ELSE {a_inner[i][1]}

\* The buffer once the elements of the slots in dead are moved out or dropped.
MovedOut(buf, dead) == [i \in ArraySlots |-> IF i \in dead THEN Uninit ELSE buf[i]]

\* How often h occurs in the sequence d.
CountIn(d, h) == Cardinality({i \in DOMAIN d : d[i] = h})

\* The destructor runs once more on every element of d.
DropRuns(d) == [h \in Values |-> a_drops[h] + CountIn(d, h)]

\* An operation that drops nothing and does not panic.
ArrQuiet ==
    /\ a_dropped' = <<>>
    /\ a_panic' = FALSE
    /\ UNCHANGED a_drops

\* Observer: a run of accepted pushes, then the pops that follow it.
ArrRunPush(v) ==
    /\ a_phase' = "push"
    /\ a_run' = IF a_phase = "push" THEN Append(a_run, v) ELSE <<v>>
    /\ a_got' = <<>>

ArrRunPop(v) ==
    IF a_phase \in {"push", "pop"} /\ Len(a_got) < Len(a_run)
    THEN /\ a_phase' = "pop"
         /\ a_got' = Append(a_got, v)
         /\ UNCHANGED a_run
    ELSE /\ a_phase' = "off"
         /\ a_run' = <<>>
         /\ a_got' = <<>>

ArrRunOff ==
    /\ a_phase' = "off"
    /\ a_run' = <<>>
    /\ a_got' = <<>>

\* ArrPush with a fault: the capacity test is off by one.
ArrPush_OffByOne(v) ==
    /\ a_mode = "array"
    /\ a_op' = "push"
    /\ a_arg' = <<v>>
    /\ IF a_len + 1 = C
       THEN /\ a_ret' = Some(v)
            /\ UNCHANGED <<a_len, a_inner, a_stored, runVars>>
       ELSE /\ a_inner' = [a_inner EXCEPT ![a_len] = Init_(v)]
            /\ a_len' = a_len + 1
            /\ a_ret' = None
            /\ a_stored' = a_stored \cup {v}
            /\ ArrRunPush(v)
    /\ ArrQuiet
    /\ UNCHANGED <<a_mode, a_out, iterVars, cloneVars>>
    /\ UNCHANGED outsideArray

\* Array::push
\*   match self.len == self.capacity() {
\*       true => Some(value),
\*       false => { ptr::write(self.as_mut_elem(self.len), value); self.len += 1; None } }
ArrPush(v) ==
    /\ a_mode = "array"
    /\ a_op' = "push"
    /\ a_arg' = <<v>>
    /\ IF a_len = C
       THEN /\ a_ret' = Some(v)
            /\ UNCHANGED <<a_len, a_inner, a_stored, runVars>>
       ELSE /\ a_inner' = [a_inner EXCEPT ![a_len] = Init_(v)]
            /\ a_len' = a_len + 1
            /\ a_ret' = None
            /\ a_stored' = a_stored \cup {v}
            /\ ArrRunPush(v)
    /\ ArrQuiet
    /\ UNCHANGED <<a_mode, a_out, iterVars, cloneVars>>
    /\ UNCHANGED outsideArray

\* ArrPop with a fault: the element at index 0 is read instead of the last one.
ArrPop_Bottom ==
    /\ a_mode = "array"
    /\ a_op' = "pop"
    /\ a_arg' = <<>>
    /\ IF a_len = 0
       THEN /\ a_ret' = None
            /\ UNCHANGED <<a_len, a_out, runVars>>
       ELSE /\ \E v \in ArrSlotValues(0) :
                  /\ a_ret' = Some(v)
                  /\ a_out' = a_out \cup {v}
                  /\ ArrRunPop(v)
            /\ a_len' = a_len - 1
    /\ a_inner' = MovedOut(a_inner, {0})
    /\ ArrQuiet
    /\ UNCHANGED <<a_mode, a_stored, iterVars, cloneVars>>
    /\ UNCHANGED <<calls, outsideArray>>

\* Array::pop
\*   match self.len { 0 => None, _ => Some(self.pop_unchecked()) }
\* pop_unchecked reads slot len - 1 and decrements len.
ArrPop ==
    /\ a_mode = "array"
    /\ a_op' = "pop"
    /\ a_arg' = <<>>
    /\ IF a_len = 0
       THEN /\ a_ret' = None
            /\ UNCHANGED <<a_len, a_out, runVars>>
       ELSE /\ \E v \in ArrSlotValues(a_len - 1) :
                  /\ a_ret' = Some(v)
                  /\ a_out' = a_out \cup {v}
                  /\ ArrRunPop(v)
            /\ a_len' = a_len - 1
    /\ a_inner' = MovedOut(a_inner, {a_len - 1})
    /\ ArrQuiet
    /\ UNCHANGED <<a_mode, a_stored, iterVars, cloneVars>>
    /\ UNCHANGED <<calls, outsideArray>>

\* The elements truncate(n) drops on an array of length len, last one first.
\*   if len >= self.len { return; }
\*   if needs_drop::<T>() { loop { drop(slot[self.len - 1]); self.len -= 1;
\*                                 if self.len == len { break; } } }
\*   else { self.len = len }
TruncateDrops(len, n) ==
    IF n >= len \/ ~needs_drop
    THEN {<<>>}
    ELSE {d \in [1 .. (len - n) -> Values] :
             \A i \in 1 .. (len - n) : d[i] \in ArrSlotValues(len - i)}

\* Array::truncate(len) / inner_truncate
Truncate(n) ==
    /\ a_len' = IF n >= a_len THEN a_len ELSE n
    /\ a_dropped' \in TruncateDrops(a_len, n)
    /\ a_inner' = MovedOut(a_inner, n .. (a_len - 1))

\* An operation that only shortens the array: truncate, clear, drop.
Shorten(n) ==
    /\ Truncate(n)
    /\ a_drops' = DropRuns(a_dropped')
    /\ a_ret' = None
    /\ a_panic' = FALSE
    /\ ArrRunOff
    /\ UNCHANGED <<a_stored, a_out, iterVars, cloneVars>>
    /\ UNCHANGED <<calls, outsideArray>>

\* ArrTruncate with a fault: the early return is missing, so len becomes n
\* whenever the two differ.
ArrTruncate_SetLen ==
    \E n \in 0 .. C :
        /\ a_mode = "array"
        /\ a_op' = "truncate"
        /\ a_arg' = <<n>>
        /\ a_len' = n
        /\ a_dropped' \in TruncateDrops(a_len, n)
        /\ a_drops' = DropRuns(a_dropped')
        /\ a_ret' = None
        /\ a_panic' = FALSE
        /\ ArrRunOff
        /\ a_inner' = MovedOut(a_inner, n .. (a_len - 1))
        /\ UNCHANGED <<a_mode, a_stored, a_out, iterVars, cloneVars>>
        /\ UNCHANGED <<calls, outsideArray>>

ArrTruncate ==
    \E n \in 0 .. C :
        /\ a_mode = "array"
        /\ a_op' = "truncate"
        /\ a_arg' = <<n>>
        /\ Shorten(n)
        /\ UNCHANGED a_mode

\* Array::clear
\*   self.truncate(0);
ArrClear ==
    /\ a_mode = "array"
    /\ a_op' = "clear"
    /\ a_arg' = <<>>
    /\ Shorten(0)
    /\ UNCHANGED a_mode

\* ArrDrop with a fault: the elements are forgotten instead of cleared.
ArrDrop_Forget ==
    /\ a_mode = "array"
    /\ a_op' = "drop"
    /\ a_arg' = <<>>
    /\ a_ret' = None
    /\ ArrQuiet
    /\ ArrRunOff
    /\ a_mode' = "gone"
    /\ a_len' = 0
    /\ a_inner' = MovedOut(a_inner, ArraySlots)
    /\ UNCHANGED <<a_stored, a_out, iterVars, cloneVars>>
    /\ UNCHANGED <<calls, outsideArray>>

\* Drop for Array
\*   self.clear();
ArrDrop ==
    /\ a_mode = "array"
    /\ a_op' = "drop"
    /\ a_arg' = <<>>
    /\ Shorten(0)
    /\ a_mode' = "gone"

\* ArrSwapRemove with a fault: the swap is missing, so the last element is
\* the one removed.
ArrSwapRemove_NoSwap ==
    \E index \in 0 .. C :
        /\ a_mode = "array"
        /\ a_op' = "swap_remove"
        /\ a_arg' = <<index>>
        /\ IF index < a_len
           THEN /\ a_panic' = FALSE
                /\ \E v \in ArrSlotValues(a_len - 1) :
                      /\ a_ret' = Some(v)
                      /\ a_out' = a_out \cup {v}
                /\ a_inner' = MovedOut(a_inner, {a_len - 1})
                /\ a_len' = a_len - 1
           ELSE /\ a_panic' = TRUE
                /\ a_ret' = None
                /\ UNCHANGED <<a_len, a_inner, a_out>>
        /\ a_dropped' = <<>>
        /\ ArrRunOff
        /\ UNCHANGED <<a_drops, a_mode, a_stored, iterVars, cloneVars>>
        /\ UNCHANGED <<calls, outsideArray>>

\* Array::swap_remove
\*   assert!(index < self.len);
\*   ptr::swap(self.as_mut_elem(index), self.as_mut_elem(self.len - 1));
\*   self.pop_unchecked()
ArrSwapRemove ==
    \E index \in 0 .. C :
        /\ a_mode = "array"
        /\ a_op' = "swap_remove"
        /\ a_arg' = <<index>>
        /\ IF index < a_len
           THEN /\ a_panic' = FALSE
                /\ a_inner' = MovedOut([a_inner EXCEPT ![index] = a_inner[a_len - 1],
                                                       ![a_len - 1] = a_inner[index]],
                                       {a_len - 1})
                /\ \E v \in ArrSlotValues(index) :
                      /\ a_ret' = Some(v)
                      /\ a_out' = a_out \cup {v}
                /\ a_len' = a_len - 1
           ELSE /\ a_panic' = TRUE
                /\ a_ret' = None
                /\ UNCHANGED <<a_len, a_inner, a_out>>
        /\ a_dropped' = <<>>
        /\ ArrRunOff
        /\ UNCHANGED <<a_drops, a_mode, a_stored, iterVars, cloneVars>>
        /\ UNCHANGED <<calls, outsideArray>>

\* T::default() of an element type without destructor (usize in the tests).
DefaultValue == 0

\* The results of k calls of value.clone(): the same bytes for a type without
\* destructor, a new resource each for a type with one.
Clones(value, k) == [j \in 1 .. k |-> IF needs_drop THEN value + j ELSE value]

\* The results of k calls of T::default().
Defaults(k) == [j \in 1 .. k |-> IF needs_drop THEN calls + j - 1 ELSE DefaultValue]

\* The loop of resize_unchecked / resize_default_unchecked
\*   while self.len() < new_len { self.push_unchecked(<next element of made>) }
Extend(n, made) ==
    /\ a_inner' = [i \in ArraySlots |->
                      IF a_len <= i /\ i < n THEN Init_(made[i - a_len + 1]) ELSE a_inner[i]]
    /\ a_len' = n
    /\ a_stored' = a_stored \cup {made[j] : j \in DOMAIN made}
    /\ a_dropped' = <<>>

\* ArrResize with a fault: the loop is an if, so at most one slot is filled.
ArrResize_Once ==
    \E n \in 0 .. (C + 1) :
        LET value == calls
            k == IF n > a_len /\ n <= C THEN 1 ELSE 0
            used == IF needs_drop THEN 1 + k ELSE 1
        IN  /\ a_mode = "array"
            /\ calls + used <= MaxElems
            /\ calls' = calls + used
            /\ a_op' = "resize"
            /\ a_arg' = <<n, value>>
            /\ a_ret' = None
            /\ IF n > C
               THEN /\ a_panic' = TRUE
                    /\ a_dropped' = <<>>
                    /\ UNCHANGED <<a_len, a_inner, a_stored>>
               ELSE /\ a_panic' = FALSE
                    /\ IF n > a_len
                       THEN Extend(a_len + 1, Clones(value, k))
                       ELSE /\ Truncate(n)
                            /\ UNCHANGED a_stored
            /\ a_drops' = IF needs_drop THEN DropRuns(a_dropped' \o <<value>>) ELSE a_drops
            /\ ArrRunOff
            /\ UNCHANGED <<a_mode, a_out, iterVars, cloneVars>>
            /\ UNCHANGED outsideArray

\* Array::resize(new_len, value); value is the next element
\*   assert!(new_len <= self.capacity());
\*   match new_len > self.len() {
\*       true => while self.len() < new_len { self.push_unchecked(value.clone()); },
\*       false => self.truncate(new_len) }
\* value is dropped when the call returns or unwinds.
ArrResize ==
    \E n \in 0 .. (C + 1) :
        LET value == calls
            k == IF n > a_len /\ n <= C THEN n - a_len ELSE 0
            used == IF needs_drop THEN 1 + k ELSE 1
        IN  /\ a_mode = "array"
            /\ calls + used <= MaxElems
            /\ calls' = calls + used
            /\ a_op' = "resize"
            /\ a_arg' = <<n, value>>
            /\ a_ret' = None
            /\ IF n > C
               THEN /\ a_panic' = TRUE
                    /\ a_dropped' = <<>>
                    /\ UNCHANGED <<a_len, a_inner, a_stored>>
               ELSE /\ a_panic' = FALSE
                    /\ IF n > a_len
                       THEN Extend(n, Clones(value, k))
                       ELSE /\ Truncate(n)
                            /\ UNCHANGED a_stored
            /\ a_drops' = IF needs_drop THEN DropRuns(a_dropped' \o <<value>>) ELSE a_drops
            /\ ArrRunOff
            /\ UNCHANGED <<a_mode, a_out, iterVars, cloneVars>>
            /\ UNCHANGED outsideArray

\* ArrResizeDefault with a fault: the capacity is asserted after the resize,
\* which stops at the capacity.
ArrResizeDefault_LateAssert ==
    \E n \in 0 .. (C + 1) :
        LET m == IF n > C THEN C ELSE n
            k == IF m > a_len THEN m - a_len ELSE 0
            used == IF needs_drop THEN k ELSE 0
        IN  /\ a_mode = "array"
            /\ calls + used <= MaxElems
            /\ calls' = calls + used
            /\ a_op' = "resize_default"
            /\ a_arg' = <<n>>
            /\ a_ret' = None
            /\ a_panic' = (n > C)
            /\ IF m > a_len
               THEN Extend(m, Defaults(k))
               ELSE /\ Truncate(m)
                    /\ UNCHANGED a_stored
            /\ a_drops' = DropRuns(a_dropped')
            /\ ArrRunOff
            /\ UNCHANGED <<a_mode, a_out, iterVars, cloneVars>>
            /\ UNCHANGED outsideArray

\* Array::resize_default(new_len)
\*   assert!(new_len <= self.capacity());
\*   match new_len > self.len() {
\*       true => while self.len() < new_len { self.push_unchecked(T::default()); },
\*       false => self.truncate(new_len) }
ArrResizeDefault ==
    \E n \in 0 .. (C + 1) :
        LET k == IF n > a_len /\ n <= C THEN n - a_len ELSE 0
            used == IF needs_drop THEN k ELSE 0
        IN  /\ a_mode = "array"
            /\ calls + used <= MaxElems
            /\ calls' = calls + used
            /\ a_op' = "resize_default"
            /\ a_arg' = <<n>>
            /\ a_ret' = None
            /\ IF n > C
               THEN /\ a_panic' = TRUE
                    /\ a_dropped' = <<>>
                    /\ UNCHANGED <<a_len, a_inner, a_stored>>
               ELSE /\ a_panic' = FALSE
                    /\ IF n > a_len
                       THEN Extend(n, Defaults(k))
                       ELSE /\ Truncate(n)
                            /\ UNCHANGED a_stored
            /\ a_drops' = DropRuns(a_dropped')
            /\ ArrRunOff
            /\ UNCHANGED <<a_mode, a_out, iterVars, cloneVars>>
            /\ UNCHANGED outsideArray

ArrayPush ==
    /\ calls < MaxElems
    /\ ArrPush(calls)
    /\ calls' = calls + 1

NextArray ==
    \/ ArrayPush
    \/ ArrPop
    \/ ArrTruncate
    \/ ArrClear
    \/ ArrSwapRemove
    \/ ArrResize
    \/ ArrResizeDefault
    \/ ArrDrop

\* Array has no arithmetic that can overflow: the build's overflow checks
\* make no difference to it.
ArrayInit == Init /\ ~overflow_checks

SpecArray == ArrayInit /\ [][NextArray]_vars

\* C10: a push while len < C returns nothing, stores the value at index len and
\* adds one to len, the elements below staying as they are; a push when
\* len = C returns the value and leaves len and every stored element unchanged.
C10_ArrayPushAcceptsUntilFull ==
    [][(a_op' = "push" /\ calls' # calls) =>
          IF a_len < C
          THEN /\ a_ret' = None
               /\ a_len' = a_len + 1
               /\ a_inner'[a_len] = Init_(calls)
               /\ AsSlice' = Append(AsSlice, Init_(calls))
          ELSE /\ a_ret' = Some(calls)
               /\ a_len' = C
               /\ a_len = C
               /\ AsSlice' = AsSlice
    ]_vars

\* C10 witness: C pushes in a row were accepted and the next one was rejected.
C10_Witness ==
    /\ a_op = "push"
    /\ a_ret = Some(calls - 1)
    /\ a_len = C
    /\ AsSlice = [i \in 1 .. C |-> Init_(calls - 1 - C + i - 1)]
    /\ calls > C

\* C11: the pops that follow a run of accepted pushes return the values of the
\* run in reverse order, the last pushed first; a pop on an empty array
\* returns nothing and leaves it empty.
C11_ArrayIsLifo ==
    [][/\ a_phase' = "pop" =>
             \A i \in 1 .. Len(a_got') : a_got'[i] = a_run'[Len(a_run') + 1 - i]
       /\ (a_op' = "pop" /\ a_len = 0) => (a_ret' = None /\ a_len' = 0 /\ AsSlice' = <<>>)
       /\ (a_op' = "pop" /\ a_len > 0) => (a_ret' # None /\ a_len' = a_len - 1)
    ]_vars

\* C11 witness: C accepted pushes in a row, then C pops that gave them back,
\* then a pop that found the array empty.
C11_Witness ==
    /\ a_op = "pop"
    /\ a_ret = None
    /\ a_len = 0
    /\ a_phase = "pop"
    /\ Len(a_run) = C
    /\ Len(a_got) = C
    /\ a_got = [i \in 1 .. C |-> a_run[C + 1 - i]]

\* The element h is in a live slot.
IsLive(h) == \E i \in 0 .. (a_len - 1) : a_inner[i] = Init_(h)

\* C12: with a counted destructor, after any sequence of push, pop, truncate,
\* resize, resize_default, clear and the final drop, every element ever stored
\* is in exactly one of three cases: still live and never dropped; handed out
\* (by pop or swap_remove) and never dropped by the container; removed by
\* truncate, clear, a shrinking resize or the drop and dropped exactly once.
\* After the final drop no element is live.  No other destructor runs twice,
\* and a type without destructor has none run.
C12_EveryElementDroppedOnce ==
    /\ \A h \in Values : a_drops[h] <= 1
    /\ ~needs_drop => \A h \in Values : a_drops[h] = 0
    /\ a_mode = "gone" => a_len = 0
    /\ needs_drop =>
          \A h \in a_stored :
             \/ IsLive(h) /\ h \notin a_out /\ a_drops[h] = 0
             \/ ~IsLive(h) /\ h \in a_out /\ a_drops[h] = 0
             \/ ~IsLive(h) /\ h \notin a_out /\ a_drops[h] = 1

\* C12 witness: tests/array.rs test_array_destructor at this capacity, with a
\* pop: C elements were stored, one was handed out, the others were dropped
\* once each, the last of them by the drop of the array.
C12_Witness ==
    /\ needs_drop
    /\ a_mode = "gone"
    /\ a_op = "drop"
    /\ a_dropped # <<>>
    /\ Cardinality(a_stored) = C
    /\ Cardinality(a_out) = 1
    /\ \A h \in a_stored \ a_out : a_drops[h] = 1
    /\ \A h \in a_out : a_drops[h] = 0

(***************************************************************************)
(* array.rs: ArrayConsumer<T, C>, the consuming iterator of Array.         *)
(***************************************************************************)
\* IntoIterator for Array
\*   ArrayConsumer { inner: self, cursor: 0 }
IntoIter ==
    /\ a_mode = "array"
    /\ a_mode' = "iter"
    /\ a_op' = "into_iter"
    /\ a_arg' = <<>>
    /\ a_ret' = None
    /\ it_cursor' = 0
    /\ it_src' = [i \in 1 .. a_len |-> a_inner[i - 1][1]]
    /\ it_got' = <<>>
    /\ ArrQuiet
    /\ ArrRunOff
    /\ UNCHANGED <<a_len, a_inner, a_stored, a_out, cloneVars>>
    /\ UNCHANGED <<calls, outsideArray>>

\* IterNext with a fault: the cursor is not advanced.
IterNext_NoAdvance ==
    /\ a_mode = "iter"
    /\ a_op' = "next"
    /\ a_arg' = <<>>
    /\ IF it_cursor < a_len
       THEN /\ \E v \in ArrSlotValues(it_cursor) :
                  /\ a_ret' = Some(v)
                  /\ a_out' = a_out \cup {v}
                  /\ it_got' = Append(it_got, v)
            /\ a_inner' = MovedOut(a_inner, {it_cursor})
            /\ UNCHANGED it_cursor
       ELSE /\ a_ret' = None
            /\ UNCHANGED <<a_inner, a_out, it_cursor, it_got>>
    /\ ArrQuiet
    /\ UNCHANGED <<a_len, a_mode, a_stored, runVars, it_src, cloneVars>>
    /\ UNCHANGED <<calls, outsideArray>>

\* Iterator::next for ArrayConsumer
\*   if self.cursor < self.inner.len() {
\*       let result = ptr::read(self.inner.as_elem(self.cursor));
\*       self.cursor += 1;
\*       Some(result)
\*   } else { None }
IterNext ==
    /\ a_mode = "iter"
    /\ a_op' = "next"
    /\ a_arg' = <<>>
    /\ IF it_cursor < a_len
       THEN /\ \E v \in ArrSlotValues(it_cursor) :
                  /\ a_ret' = Some(v)
                  /\ a_out' = a_out \cup {v}
                  /\ it_got' = Append(it_got, v)
            /\ a_inner' = MovedOut(a_inner, {it_cursor})
            /\ it_cursor' = it_cursor + 1
       ELSE /\ a_ret' = None
            /\ UNCHANGED <<a_inner, a_out, it_cursor, it_got>>
    /\ ArrQuiet
    /\ UNCHANGED <<a_len, a_mode, a_stored, runVars, it_src, cloneVars>>
    /\ UNCHANGED <<calls, outsideArray>>

\* The elements the loop of ArrayConsumer::drop takes with next() and drops,
\* in the order of the slots from the cursor to len - 1.
IterRest ==
    IF ~needs_drop
    THEN {<<>>}
    ELSE {d \in [1 .. (a_len - it_cursor) -> Values] :
             \A i \in 1 .. (a_len - it_cursor) : d[i] \in ArrSlotValues(it_cursor + i - 1)}

\* IterDrop with a fault: set_len(0) is missing, so the drop of the inner
\* Array clears len slots whose elements are all moved out.
IterDrop_NoSetLen ==
    /\ a_mode = "iter"
    /\ a_mode' = "gone"
    /\ a_op' = "iter_drop"
    /\ a_arg' = <<>>
    /\ a_ret' = None
    /\ a_panic' = FALSE
    /\ \E rest \in IterRest :
          \E own \in IF needs_drop THEN [1 .. a_len -> Values] ELSE {<<>>} :
              a_dropped' = rest \o own
    /\ a_drops' = DropRuns(a_dropped')
    /\ it_cursor' = IF needs_drop THEN a_len ELSE it_cursor
    /\ a_len' = 0
    /\ a_inner' = MovedOut(a_inner, ArraySlots)
    /\ UNCHANGED <<a_stored, a_out, runVars, it_src, it_got, cloneVars>>
    /\ UNCHANGED <<calls, outsideArray>>

\* Drop for ArrayConsumer, then the drop of its field inner
\*   if mem::needs_drop::<T>() { while let Some(_) = self.next() {} }
\*   self.inner.set_len(0);
\* Drop for Array: self.clear(), on an array whose len is now 0.
IterDrop ==
    /\ a_mode = "iter"
    /\ a_mode' = "gone"
    /\ a_op' = "iter_drop"
    /\ a_arg' = <<>>
    /\ a_ret' = None
    /\ a_panic' = FALSE
    /\ \E rest \in IterRest :
          \E own \in TruncateDrops(0, 0) :
              a_dropped' = rest \o own
    /\ a_drops' = DropRuns(a_dropped')
    /\ it_cursor' = IF needs_drop THEN a_len ELSE it_cursor
    /\ a_len' = 0
    /\ a_inner' = MovedOut(a_inner, ArraySlots)
    /\ UNCHANGED <<a_stored, a_out, runVars, it_src, it_got, cloneVars>>
    /\ UNCHANGED <<calls, outsideArray>>

NextArrayIter ==
    \/ ArrayPush
    \/ ArrPop
    \/ ArrTruncate
    \/ IntoIter
    \/ IterNext
    \/ IterDrop

SpecArrayIter == ArrayInit /\ [][NextArrayIter]_vars

\* C13: the consuming iterator yields the len elements that were live at
\* into_iter, each once, in storage order from index 0; once it has yielded
\* them all, next() returns nothing and changes nothing, on every call; it
\* never reads a slot at or above len, and its cursor never goes back.
C13_IterYieldsEachOnceInOrder ==
    [][/\ a_mode' = "iter" =>
             /\ a_len' = Len(it_src')
             /\ it_cursor' <= a_len'
             /\ it_got' = SubSeq(it_src', 1, it_cursor')
       /\ (a_op' = "next" /\ a_mode = "iter") =>
             /\ it_cursor' >= it_cursor
             /\ IF it_cursor < a_len
                THEN /\ a_ret' = Some(it_src[it_cursor + 1])
                     /\ it_cursor' = it_cursor + 1
                ELSE /\ a_ret' = None
                     /\ it_cursor' = it_cursor
                     /\ it_got' = it_got
    ]_vars

\* C13 witness: an iterator over a full array has yielded all C elements and
\* the call after that returned nothing.
C13_Witness ==
    /\ a_mode = "iter"
    /\ a_op = "next"
    /\ a_ret = None
    /\ Len(it_src) = C
    /\ it_got = it_src
    /\ it_cursor = C

\* C14: when a consuming iterator is dropped after yielding k of len
\* elements, the len - k elements not yet yielded are dropped exactly once
\* each, the k yielded ones are not dropped by the iterator, and the drop of
\* the inner Array drops nothing more; a type without destructor has nothing
\* dropped.
C14_IterDropDropsTheRest ==
    [][a_op' = "iter_drop" =>
          LET k == it_cursor
              rest == SubSeq(it_src, k + 1, a_len)
          IN  /\ Len(it_got) = k
              /\ a_dropped' = IF needs_drop THEN rest ELSE <<>>
              /\ \A h \in Values :
                    a_drops'[h] = a_drops[h] + IF needs_drop THEN CountIn(rest, h) ELSE 0
              /\ \A i \in 1 .. k : a_drops'[it_got[i]] = 0
              /\ needs_drop => \A h \in a_stored' :
                                  \/ h \in a_out' /\ a_drops'[h] = 0
                                  \/ h \notin a_out' /\ a_drops'[h] = 1
              /\ a_len' = 0
    ]_vars

\* C14 witness: an iterator over a full array of elements with a destructor
\* was dropped after yielding one element, and dropped the other C - 1.
C14_Witness ==
    /\ needs_drop
    /\ a_op = "iter_drop"
    /\ Len(it_src) = C
    /\ Len(it_got) = 1
    /\ a_dropped = SubSeq(it_src, 2, C)

(***************************************************************************)
(* array.rs: Clone and PartialEq for Array.  b is the Array that clone()   *)
(* returned.                                                               *)
(***************************************************************************)
BSlice == [i \in 1 .. b_len |-> b_inner[i - 1]]

BSlotValues(i) == IF b_inner[i] = Uninit THEN Values ELSE {b_inner[i][1]}

\* PartialEq for Array
\*   self.as_slice() == other.as_slice()
ArrEq == AsSlice = BSlice

\* Clone for Array
\*   let mut result = Self { inner: MaybeUninit::uninit(), len: self.len };
\*   self.inner.as_ptr().copy_to_nonoverlapping(result.inner.as_mut_ptr(), 1);
\* The whole buffer is copied byte for byte; T::clone is not called.
ArrClone ==
    /\ a_mode = "array"
    /\ b_mode = "none"
    /\ b_mode' = "array"
    /\ b_len' = a_len
    /\ b_inner' = a_inner
    /\ a_op' = "clone"
    /\ a_arg' = <<>>
    /\ a_ret' = None
    /\ ArrQuiet
    /\ ArrRunOff
    /\ UNCHANGED <<a_len, a_inner, a_mode, a_stored, a_out, iterVars>>
    /\ UNCHANGED <<calls, outsideArray>>

\* What an operation on the clone leaves alone.
outsideClone == <<a_len, a_inner, a_mode, runVars, iterVars, b_mode, outsideArray>>

\* Array::push on the clone
ClonePush(v) ==
    /\ b_mode = "array"
    /\ a_op' = "clone.push"
    /\ a_arg' = <<v>>
    /\ IF b_len = C
       THEN /\ a_ret' = Some(v)
            /\ UNCHANGED <<b_len, b_inner, a_stored>>
       ELSE /\ b_inner' = [b_inner EXCEPT ![b_len] = Init_(v)]
            /\ b_len' = b_len + 1
            /\ a_ret' = None
            /\ a_stored' = a_stored \cup {v}
    /\ ArrQuiet
    /\ UNCHANGED <<a_out, outsideClone>>

\* Array::pop on the clone
ClonePop ==
    /\ b_mode = "array"
    /\ a_op' = "clone.pop"
    /\ a_arg' = <<>>
    /\ IF b_len = 0
       THEN /\ a_ret' = None
            /\ UNCHANGED <<b_len, b_inner, a_out>>
       ELSE /\ \E v \in BSlotValues(b_len - 1) :
                  /\ a_ret' = Some(v)
                  /\ a_out' = a_out \cup {v}
            /\ b_inner' = [b_inner EXCEPT ![b_len - 1] = Uninit]
            /\ b_len' = b_len - 1
    /\ ArrQuiet
    /\ UNCHANGED <<calls, a_stored, outsideClone>>

\* Array::truncate on the clone
CloneShorten(n) ==
    /\ b_len' = IF n >= b_len THEN b_len ELSE n
    /\ b_inner' = [i \in ArraySlots |-> IF n <= i /\ i < b_len THEN Uninit ELSE b_inner[i]]
    /\ IF n >= b_len \/ ~needs_drop
       THEN a_dropped' = <<>>
       ELSE \E d \in [1 .. (b_len - n) -> Values] :
               /\ \A i \in 1 .. (b_len - n) : d[i] \in BSlotValues(b_len - i)
               /\ a_dropped' = d
    /\ a_drops' = DropRuns(a_dropped')
    /\ a_ret' = None
    /\ a_panic' = FALSE
    /\ UNCHANGED <<calls, a_stored, a_out, outsideClone>>

CloneTruncate ==
    \E n \in 0 .. C :
        /\ b_mode = "array"
        /\ a_op' = "clone.truncate"
        /\ a_arg' = <<n>>
        /\ CloneShorten(n)

\* Array::clear on the clone
CloneClear ==
    /\ b_mode = "array"
    /\ a_op' = "clone.clear"
    /\ a_arg' = <<>>
    /\ CloneShorten(0)

ArrayClonePush ==
    /\ calls < MaxElems
    /\ ClonePush(calls)
    /\ calls' = calls + 1

NextArrayClone ==
    \/ ArrayPush
    \/ ArrPop
    \/ ArrClone
    \/ ArrayClonePush
    \/ ClonePop
    \/ CloneTruncate
    \/ CloneClear

SpecArrayClone == ArrayInit /\ [][NextArrayClone]_vars

\* C15: clone() returns an array with the same len and the same live elements
\* in the same order, equal to the original; equality compares the live
\* slices only, whatever the slots at and above len hold; and a later push,
\* pop, truncate or clear on the clone leaves the original's len and live
\* elements as they were, none of them destroyed.
C15_CloneEqualAndIndependent ==
    [][/\ a_op' = "clone" =>
             /\ b_len' = a_len
             /\ BSlice' = AsSlice
             /\ ArrEq'
       /\ (a_len = b_len /\ \A i \in 0 .. (a_len - 1) : a_inner[i] = b_inner[i]) => ArrEq
       /\ a_op' \in {"clone.push", "clone.pop", "clone.truncate", "clone.clear"} =>
             /\ a_len' = a_len
             /\ AsSlice' = AsSlice
             /\ \A i \in 0 .. (a_len - 1) :
                   a_drops'[a_inner[i][1]] = a_drops[a_inner[i][1]]
    ]_vars

(***************************************************************************)
(* clear() of the three containers.                                        *)
(***************************************************************************)
\* clear() of an Array: it is empty afterwards, a pop right after returns
\* nothing, a push right after is accepted as on a new Array.
ArrayClearEmpties ==
    /\ a_op' = "clear" => (a_len' = 0 /\ AsSlice' = <<>> /\ ~a_panic')
    /\ (a_op = "clear" /\ a_op' = "pop") => (a_ret' = None /\ a_len' = 0)
    /\ (a_op = "clear" /\ a_op' = "push") => (a_ret' = None /\ a_len' = 1)

\* The same of a RingBuffer<T, C> of ring.rs used through &mut self.
OwnClearEmpties ==
    /\ o_op' = "clear" => (IsEmpty' /\ Size' = 0)
    /\ (o_op = "clear" /\ o_op' = "pop") => (o_ret' = None /\ IsEmpty')
    /\ (o_op = "clear" /\ o_op' \in {"push", "try_push"}) =>
          (o_ret' = None /\ o_dropped' = <<>> /\ Size' = 1)

\* The same of a RingBuffer<T> made by declare_ring_buffer!.
MacroClearEmpties ==
    /\ m_op' = "clear" => (~m_panic' /\ MIsEmpty' /\ MSize' = 0)
    /\ (m_op = "clear" /\ m_op' = "pop") => (m_ret' = None /\ MIsEmpty')
    /\ (m_op = "clear" /\ m_op' = "push") =>
          (~m_panic' /\ m_dropped' = <<>> /\ MSize' = 1)

\* C16: clear() in any reachable state of an Array, of a RingBuffer<T, C> in
\* owning mode and of a macro-made RingBuffer leaves the container empty:
\* is_empty() holds, the length is 0, pop() returns nothing, and pushes are
\* accepted again as on a new container.
C16_ClearLeavesEmpty ==
    [][ArrayClearEmpties /\ OwnClearEmpties /\ MacroClearEmpties]_vars

\* The parts of C16 about the Array and about ring.rs, each a property of its
\* own specification.
C16_ArrayPart == [][ArrayClearEmpties]_vars

C16_OwnPart == [][OwnClearEmpties]_vars

(***************************************************************************)
(* swap_remove, truncate, resize, resize_default.                          *)
(***************************************************************************)
\* The elements of the slots from, from + 1, ..., to - 1.
SlotRange(from, to) == [j \in 1 .. (to - from) |-> a_inner[from + j - 1][1]]

\* The step dropped exactly the elements of d, once each, and no other
\* element that was ever stored.
DroppedExactly(d) ==
    /\ \A h \in Values : CountIn(a_dropped', h) = IF needs_drop THEN CountIn(d, h) ELSE 0
    /\ \A h \in a_stored : a_drops'[h] = a_drops[h] + IF needs_drop THEN CountIn(d, h) ELSE 0

\* C17: swap_remove(i) with i < len returns the element at index i, puts the
\* former last element at index i when i is not the last index, decreases
\* len by one and leaves the elements at the other indices as they are.
C17_SwapRemoveMovesLast ==
    [][(a_op' = "swap_remove" /\ a_arg'[1] < a_len) =>
          LET i == a_arg'[1]
          IN  /\ ~a_panic'
              /\ a_ret' = Some(a_inner[i][1])
              /\ a_len' = a_len - 1
              /\ \A j \in 0 .. (a_len - 2) :
                    a_inner'[j] = IF j = i THEN a_inner[a_len - 1] ELSE a_inner[j]
              /\ DroppedExactly(<<>>)
    ]_vars

\* C17 witness: swap_remove(0) on the full array 0, 1, ..., C - 1 returned 0
\* and left C - 1, 1, ..., C - 2.
C17_Witness ==
    /\ a_op = "swap_remove"
    /\ a_arg = <<0>>
    /\ a_ret = Some(0)
    /\ a_len = C - 1
    /\ a_len > 1
    /\ a_inner[0] = Init_(C - 1)
    /\ \A j \in 1 .. (C - 2) : a_inner[j] = Init_(j)

\* C18: truncate(n) with n >= len changes nothing and drops nothing; with
\* n < len it sets len to n, drops exactly the elements at the indices
\* n .. len - 1, once each, and leaves the first n elements as they are.
C18_TruncateDropsTail ==
    [][a_op' = "truncate" =>
          LET n == a_arg'[1]
          IN  /\ ~a_panic'
              /\ IF n >= a_len
                 THEN /\ a_len' = a_len
                      /\ AsSlice' = AsSlice
                      /\ DroppedExactly(<<>>)
                 ELSE /\ a_len' = n
                      /\ AsSlice' = SubSeq(AsSlice, 1, n)
                      /\ DroppedExactly(SlotRange(n, a_len))
    ]_vars

\* C18 witness: truncate(1) on a full array of elements with a destructor
\* dropped the C - 1 last elements and kept the first.
C18_Witness ==
    /\ needs_drop
    /\ a_op = "truncate"
    /\ a_arg = <<1>>
    /\ a_len = 1
    /\ Len(a_dropped) = C - 1
    /\ \A i \in 1 .. (C - 1) : a_drops[a_dropped[i]] = 1
    /\ a_drops[a_inner[0][1]] = 0

\* C19: resize(n, value) and resize_default(n) with n <= C end with len = n.
\* With n > len the first len elements are as they were and each slot of
\* len .. n - 1 holds a clone of value (resp. a default value): the bytes of
\* value (resp. of the default) for a type without destructor, and for a type
\* with one an element of its own, made by this call and not dropped.  With
\* n < len the array is truncated to n as by truncate.  With n = len nothing
\* changes.
C19_ResizeEndsWithLenN ==
    [][(a_op' \in {"resize", "resize_default"} /\ a_arg'[1] <= C) =>
          LET n == a_arg'[1]
              expected == IF a_op' = "resize" THEN a_arg'[2] ELSE DefaultValue
          IN  /\ ~a_panic'
              /\ a_len' = n
              /\ \A j \in 0 .. (a_len - 1) : j < n => a_inner'[j] = a_inner[j]
              /\ n > a_len =>
                    /\ DroppedExactly(<<>>)
                    /\ \A j \in a_len .. (n - 1) :
                          IF needs_drop
                          THEN /\ a_inner'[j] # Uninit
                               /\ a_inner'[j][1] \in (calls .. (calls' - 1)) \ a_stored
                               /\ a_op' = "resize" => a_inner'[j][1] # a_arg'[2]
                               /\ a_drops'[a_inner'[j][1]] = 0
                               /\ \A l \in a_len .. (n - 1) :
                                     l # j => a_inner'[l] # a_inner'[j]
                          ELSE a_inner'[j] = Init_(expected)
              /\ n < a_len => DroppedExactly(SlotRange(n, a_len))
              /\ n = a_len => (AsSlice' = AsSlice /\ DroppedExactly(<<>>))
    ]_vars

\* C19 witness: resize(C, value) on an array holding only the element 0
\* filled the slots 1 .. C - 1 with value and kept the element 0.
C19_Witness ==
    /\ ~needs_drop
    /\ a_op = "resize"
    /\ a_arg[1] = C
    /\ a_arg[2] # 0
    /\ a_len = C
    /\ a_inner[0] = Init_(0)
    /\ \A j \in 1 .. (C - 1) : a_inner[j] = Init_(a_arg[2])

\* C20: swap_remove(i) with i >= len and resize / resize_default with n > C
\* panic, and leave len, the buffer and every element as they were: nothing
\* is added, removed, moved or dropped.
C20_ContractViolationsChangeNothing ==
    [][(\/ a_op' = "swap_remove" /\ a_arg'[1] >= a_len
        \/ a_op' \in {"resize", "resize_default"} /\ a_arg'[1] > C) =>
          /\ a_panic'
          /\ a_ret' = None
          /\ a_len' = a_len
          /\ a_inner' = a_inner
          /\ a_stored' = a_stored
          /\ a_out' = a_out
          /\ DroppedExactly(<<>>)
    ]_vars

\* C20 witness: resize_default(C + 1) panicked on an array that holds an
\* element and has room left.
C20_Witness ==
    /\ a_panic
    /\ a_op = "resize_default"
    /\ a_arg = <<C + 1>>
    /\ a_len > 0
    /\ a_len < C

(***************************************************************************)
(* array.rs: std::io::Write for Array<u8, C>.  u8 has no destructor.       *)
(***************************************************************************)
\* The bytes written in the model.
Bytes == {0, 1}

\* The buffers handed to write: every sequence of at most C + 1 bytes, so
\* that a buffer can exceed the capacity of an empty Array.
Buffers == UNION {[1 .. n -> Bytes] : n \in 0 .. (C + 1)}

\* std::io::Result<usize>::Ok
Ok(n) == <<"Ok", n>>

Min(a, b) == IF a < b THEN a ELSE b

\* The effect of write on the Array, for the number of bytes it takes.
WriteBytes(buf, write_len) ==
    /\ a_op' = "write"
    /\ a_arg' = <<buf>>
    /\ a_ret' = Ok(write_len)
    /\ a_inner' = [i \in ArraySlots |->
                      IF a_len <= i /\ i < a_len + write_len
                      THEN Init_(buf[i - a_len + 1])
                      ELSE a_inner[i]]
    /\ a_len' = a_len + write_len
    /\ ArrQuiet
    /\ ArrRunOff
    /\ UNCHANGED <<a_mode, a_stored, a_out, iterVars, cloneVars>>
    /\ UNCHANGED <<calls, outsideArray>>

\* ArrWrite with a fault: a buffer that does not fit is not written at all.
ArrWrite_AllOrNothing ==
    \E buf \in Buffers :
        /\ a_mode = "array"
        /\ WriteBytes(buf, IF Len(buf) <= C - a_len THEN Len(buf) ELSE 0)

\* Write::write for Array<u8, C>
\*   let write_len = core::cmp::min(self.capacity() - self.len(), buf.len());
\*   ptr::copy_nonoverlapping(buf.as_ptr(), self.as_mut_elem(self.len), write_len);
\*   self.len += write_len;
\*   Ok(write_len)
ArrWrite ==
    \E buf \in Buffers :
        /\ a_mode = "array"
        /\ WriteBytes(buf, Min(C - a_len, Len(buf)))

NextArrayWrite ==
    \/ ArrWrite
    \/ ArrPop
    \/ ArrTruncate
    \/ ArrClear

\* The element type is u8.
ArrayWriteInit == ArrayInit /\ ~needs_drop

SpecArrayWrite == ArrayWriteInit /\ [][NextArrayWrite]_vars

\* C21: write(buf) on an Array of bytes never errors and takes exactly
\* min(C - len, length of buf) bytes: it returns Ok of that count, appends
\* that prefix of buf after the existing content, adds the count to len,
\* never lets len exceed C, and returns Ok(0) on a full Array.
C21_WriteTakesWhatFits ==
    [][a_op' = "write" =>
          LET buf == a_arg'[1]
              n == IF C - a_len < Len(buf) THEN C - a_len ELSE Len(buf)
          IN  /\ ~a_panic'
              /\ a_ret' = Ok(n)
              /\ a_len' = a_len + n
              /\ a_len' <= C
              /\ AsSlice' = AsSlice \o [i \in 1 .. n |-> Init_(buf[i])]
              /\ a_len = C => (a_ret' = Ok(0) /\ AsSlice' = AsSlice)
    ]_vars

\* C21 witness: tests/array.rs test_array_write at this capacity: a write
\* that fitted, then a write of which only a part fitted, filled the Array.
C21_Witness ==
    /\ a_op = "write"
    /\ a_len = C
    /\ Len(a_arg[1]) = C
    /\ a_ret = Ok(1)
    /\ a_ret # Ok(Len(a_arg[1]))
    /\ a_inner[C - 1] = Init_(a_arg[1][1])

(***************************************************************************)
(* ring.rs: a RingBuffer<T, C> used in one of its two modes, through       *)
(* &mut self or through the handles of split().                            *)
(***************************************************************************)
\* No handle of split() has been used.
NeverSplit == \A t \in Threads : p_steps[t] = 0 /\ c_steps[t] = 0

\* No owning-mode operation has been called.
NeverOwned == o_op = "new"

\* No try_push and no pop is in progress.
Quiescent == \A t \in Threads : p_pc[t] = "idle" /\ c_pc[t] = "idle"

NextRingModes ==
    \/ NeverSplit /\ NextOwn
    \/ NeverOwned /\ NextSplit

SpecRingModes == Init /\ [][NextRingModes]_vars

\* The number of elements a try_push accepted and no pop returned yet.
SplitLive == Len(pushed) - Len(popped)

\* What an owning-mode operation does to the number of live elements: the
\* elements it accepted, less those it returned, evicted or cleared.
OwnLiveAfter(n) ==
    CASE o_op' = "push" -> n + 1 - Len(o_dropped')
      [] o_op' = "try_push" -> IF o_ret' = None THEN n + 1 ELSE n
      [] o_op' = "pop" -> IF o_ret' = None THEN n ELSE n - 1
      [] o_op' = "clear" -> 0
      [] OTHER -> n

\* C22: the wrapping difference write - read is in 0 .. C in every state
\* reachable by the owning-mode operations and in every state of every
\* interleaving of one producer and one consumer, the states in the middle of
\* an operation included.  When no operation is in progress it is the number
\* of live elements, and size(), is_empty() and is_full() report that number,
\* that it is 0 and that it is C.  In owning mode every operation changes it
\* by the elements accepted less the elements returned, evicted or cleared; a
\* clear of elements with a destructor drops size() of them.
C22_SizeIsLiveCount ==
    [][/\ Size' \in 0 .. CAPACITY
       /\ (NeverOwned' /\ Quiescent') =>
             /\ Size' = SplitLive'
             /\ IsEmpty' <=> SplitLive' = 0
             /\ IsFull' <=> SplitLive' = CAPACITY
       /\ (NeverSplit' /\ ~NeverOwned') =>
             /\ Size' = OwnLiveAfter(Size)
             /\ IsEmpty' <=> OwnLiveAfter(Size) = 0
             /\ IsFull' <=> OwnLiveAfter(Size) = CAPACITY
             /\ (o_op' = "clear" /\ needs_drop) => Len(o_dropped') = Size
    ]_vars

\* C22 witness: in split mode, with no operation in progress, the ring is
\* full and the write cursor has wrapped around the word while the read
\* cursor has not.
C22_Witness ==
    /\ NeverOwned
    /\ Quiescent
    /\ SplitLive = CAPACITY
    /\ IsFull
    /\ write < read

(***************************************************************************)
(* Split mode: the slot protocol between the producer and the consumer.    *)
(***************************************************************************)
\* The slots of the positions read, read + 1, ..., write - 1.
LiveSlots == {MaskIdx(WrappingAdd(read, i)) : i \in 0 .. (Size - 1)}

\* The values the consumer has returned.
PoppedValues == {popped[k] : k \in 1 .. Len(popped)}

\* C23: whenever Producer::try_push writes the slot of position write, that
\* slot holds no element the consumer has not finished with: it is the slot
\* of no live position, its previous occupant (if any) was returned by a pop
\* that has stored the read cursor past it, and a pop in progress is reading
\* another slot.
C23_ProducerWritesOnlyFreeSlots ==
    [][\A t \in SpscThreads :
          (p_pc[t] = "slot" /\ p_pc'[t] = "store") =>
             LET s == MaskIdx(p_idx[t])
             IN  /\ p_idx[t] = write
                 /\ WrappingSub(write, read) < CAPACITY
                 /\ s \notin LiveSlots
                 /\ inner[s] # Uninit => inner[s][1] \in PoppedValues
                 /\ \A u \in SpscThreads :
                       c_pc[u] \in {"slot", "store"} => MaskIdx(c_idx[u]) # s
                 /\ inner'[s] = Init_(p_val[t])
    ]_vars

\* C23 witness: the producer has written a slot that held an earlier element,
\* while the consumer is in the middle of a pop of another slot.
C23_Witness ==
    /\ p_pc[1] = "store"
    /\ Len(pushed) >= CAPACITY
    /\ inner[MaskIdx(p_idx[1])] = Init_(p_val[1])
    /\ c_pc[1] = "store"
    /\ MaskIdx(c_idx[1]) # MaskIdx(p_idx[1])

\* C24: the consumer reads a slot only after the producer wrote it and stored
\* the write cursor past it, and never while the producer writes it: the slot
\* read holds the oldest accepted value that no pop has returned.  The
\* producer stores the incremented write cursor only after the slot write, the
\* consumer stores the incremented read cursor only after the slot read.  No
\* unwritten slot is read and no element is returned twice.
C24_ConsumerReadsOnlyPublishedSlots ==
    [][/\ \A t \in SpscThreads :
             (c_pc[t] = "slot" /\ c_pc'[t] = "store") =>
                LET s == MaskIdx(c_idx[t])
                IN  /\ c_idx[t] = read
                    /\ read # write
                    /\ s \in LiveSlots
                    /\ inner[s] # Uninit
                    /\ Len(popped) < Len(pushed)
                    /\ c_val'[t] = pushed[Len(popped) + 1]
                    /\ inner[s] = Init_(c_val'[t])
                    /\ \A u \in SpscThreads :
                          p_pc[u] \in {"slot", "store"} => MaskIdx(p_idx[u]) # s
       /\ \A t \in SpscThreads :
             write' # write =>
                /\ p_pc[t] = "store"
                /\ inner[MaskIdx(p_idx[t])] = Init_(p_val[t])
                /\ write' = WrappingAdd(p_idx[t], 1)
       /\ \A t \in SpscThreads :
             read' # read =>
                /\ c_pc[t] = "store"
                /\ inner[MaskIdx(c_idx[t])] = Init_(c_val[t])
                /\ read' = WrappingAdd(c_idx[t], 1)
       /\ \A i, j \in 1 .. Len(popped') : popped'[i] = popped'[j] => i = j
    ]_vars

\* C24 witness: the consumer has read a slot in its second use, while the
\* producer is in the middle of a try_push into another slot.
C24_Witness ==
    /\ c_pc[1] = "store"
    /\ Len(popped) >= CAPACITY
    /\ c_val[1] = pushed[Len(popped) + 1]
    /\ p_pc[1] = "store"
    /\ MaskIdx(c_idx[1]) # MaskIdx(p_idx[1])

\* C25: in split mode only a step of Producer::try_push changes the write
\* cursor and only a step of Consumer::pop changes the read cursor.  A
\* try_push that returns nothing has added exactly one to write and a pop
\* that returns an element exactly one to read (wrapping at the word); a
\* try_push on a full ring and a pop on an empty one change neither cursor;
\* no step sets a cursor to anything but its successor.
C25_EachSideOwnsItsCursor ==
    [][/\ write' # write =>
             /\ \E t \in SpscThreads : p_pc[t] = "store" /\ p_pc'[t] = "idle" /\ p_ret'[t] = None
             /\ write' = (write + 1) % WORD
             /\ read' = read
             /\ UNCHANGED consVars
       /\ read' # read =>
             /\ \E t \in SpscThreads : c_pc[t] = "store" /\ c_pc'[t] = "idle" /\ c_ret'[t] # None
             /\ read' = (read + 1) % WORD
             /\ write' = write
             /\ UNCHANGED prodVars
       /\ \A t \in SpscThreads :
             /\ (p_pc[t] = "store" /\ p_pc'[t] = "idle") =>
                   (p_ret'[t] = None /\ write' = (p_idx[t] + 1) % WORD /\ p_idx[t] = write)
             /\ (p_pc[t] = "ld_read" /\ p_pc'[t] = "idle") =>
                   (p_ret'[t] = Some(p_val[t]) /\ UNCHANGED <<read, write>>)
             /\ (c_pc[t] = "store" /\ c_pc'[t] = "idle") =>
                   (c_ret'[t] # None /\ read' = (c_idx[t] + 1) % WORD /\ c_idx[t] = read)
             /\ (c_pc[t] = "ld_write" /\ c_pc'[t] = "idle") =>
                   (c_ret'[t] = None /\ UNCHANGED <<read, write>>)
    ]_vars

\* C25 witness: a pop has just returned an element and wrapped the read
\* cursor to 0, and the last try_push was rejected by a full ring.
C25_Witness ==
    /\ c_pc[1] = "idle"
    /\ c_ret[1] # None
    /\ read = 0
    /\ Len(popped) = WORD
    /\ p_pc[1] = "idle"
    /\ p_ret[1] # None

(***************************************************************************)
(* ring.rs, owning mode: the ring and its elements until the ring is       *)
(* dropped.                                                                *)
(***************************************************************************)
\* The ring has not been dropped.
OwnAlive == o_op # "drop"

\* Drop for RingBuffer with a fault: the elements left are forgotten.
OwnDrop_Forget ==
    /\ OwnAlive
    /\ read' = write
    /\ o_dropped' = <<>>
    /\ UNCHANGED <<write, inner>>
    /\ o_op' = "drop"
    /\ o_ret' = None
    /\ RunOff
    /\ UNCHANGED <<calls, outsideOwn>>

\* impl Drop for RingBuffer
\*   fn drop(&mut self) { self.clear(); }
OwnDrop ==
    /\ OwnAlive
    /\ IF needs_drop
       THEN /\ read' = WrappingAdd(read, Size)
            /\ \E d \in [1 .. Size -> Values] :
                  /\ \A i \in 1 .. Size :
                        d[i] \in SlotValues(MaskIdx(WrappingAdd(read, i - 1)))
                  /\ o_dropped' = d
       ELSE /\ read' = write
            /\ o_dropped' = <<>>
    /\ UNCHANGED <<write, inner>>
    /\ o_op' = "drop"
    /\ o_ret' = None
    /\ RunOff
    /\ UNCHANGED <<calls, outsideOwn>>

NextOwnDrop ==
    \/ OwnAlive /\ NextOwn
    \/ OwnDrop

SpecOwnDrop == Init /\ [][NextOwnDrop]_vars

\* The elements the ring owns, oldest first.
Owned == [i \in 1 .. Size |-> IF Contents[i] = Uninit THEN -1 ELSE Contents[i][1]]

\* The element the last operation took into the ring, if any.
Accepted ==
    IF o_op' = "push" \/ (o_op' = "try_push" /\ o_ret' = None) THEN <<calls>> ELSE <<>>

\* The element the last operation handed to the caller out of the ring, if any.
Returned ==
    IF o_op' = "pop" /\ o_ret' # None THEN <<o_ret'[1]>> ELSE <<>>

\* C26: for an element type with a destructor, the ring owns each element it
\* accepted exactly once.  The elements it owns are initialised and distinct;
\* every push, try_push, pop, clear and the drop of the ring takes the
\* elements that leave from the old end, each either returned by the pop or
\* dropped, never both; push drops exactly the single oldest element when the
\* ring is full and nothing otherwise; try_push and pop drop nothing; clear
\* and the drop of the ring drop everything the ring owns, after which it owns
\* nothing.
C26_EveryElementOwnedOnce ==
    [][needs_drop =>
          /\ \A i \in 1 .. Len(Owned') : Owned'[i] \in Values
          /\ \A i, j \in 1 .. Len(Owned') : Owned'[i] = Owned'[j] => i = j
          /\ Owned \o Accepted = o_dropped' \o Returned \o Owned'
          /\ \A i \in 1 .. Len(Accepted) : \A j \in 1 .. Len(Owned) : Accepted[i] # Owned[j]
          /\ o_op' = "push" => o_dropped' = (IF IsFull THEN <<Owned[1]>> ELSE <<>>)
          /\ o_op' \in {"try_push", "pop"} => o_dropped' = <<>>
          /\ o_op' \in {"clear", "drop"} => (o_dropped' = Owned /\ Owned' = <<>>)
    ]_vars

\* C26 witness: a ring of a destructor type is dropped while full, after more
\* pushes than it has slots.
C26_Witness ==
    /\ o_op = "drop"
    /\ needs_drop
    /\ Len(o_dropped) = CAPACITY
    /\ calls > CAPACITY + 1
    /\ read = write

(***************************************************************************)
(* ring.rs: the cursors are usize counters, masked only when a slot is     *)
(* addressed.                                                              *)
(***************************************************************************)
\* The positions read, read + 1, ..., write - 1, as the cursor values they are.
LivePositions == {WrappingAdd(read, i) : i \in 0 .. (Size - 1)}

\* C27: the cursors of the ring count modulo 2^w, not modulo C.  In every
\* owning-mode state, also when write has wrapped around 2^w and read has not,
\* distinct live positions have distinct slots, size() is at most C, and every
\* push, try_push and pop acts on the queue of owned elements as it does
\* before the wrap: pop returns the oldest element and leaves the rest,
\* try_push appends unless size() = C, push appends and evicts the oldest
\* element iff size() = C; is_empty() and is_full() hold exactly when the
\* queue has 0 and C elements.
C27_CursorsWrapAtTheWord ==
    [][/\ write' \in {write, (write + 1) % WORD}
       /\ \E k \in 0 .. CAPACITY : read' = (read + k) % WORD
       /\ \A p, q \in LivePositions' : MaskIdx(p) = MaskIdx(q) => p = q
       /\ Size' <= CAPACITY
       /\ \A i \in 1 .. Len(Owned') : Owned'[i] \in Values
       /\ o_op' = "pop" =>
             IF Size = 0 THEN o_ret' = None /\ Owned' = Owned
             ELSE o_ret' = Some(Owned[1]) /\ Owned' = Tail(Owned)
       /\ o_op' = "try_push" =>
             IF Size = CAPACITY THEN o_ret' = Some(calls) /\ Owned' = Owned
             ELSE o_ret' = None /\ Owned' = Append(Owned, calls)
       /\ o_op' = "push" =>
             IF Size = CAPACITY
             THEN o_dropped' = <<Owned[1]>> /\ Owned' = Append(Tail(Owned), calls)
             ELSE o_dropped' = <<>> /\ Owned' = Append(Owned, calls)
       /\ IsEmpty' <=> Owned' = <<>>
       /\ IsFull' <=> Len(Owned') = CAPACITY
    ]_vars

\* C27 witness: a push has evicted the oldest element of a full ring whose
\* write cursor has wrapped around 2^w while its read cursor has not.
C27_Witness ==
    /\ o_op = "push"
    /\ Len(o_dropped) = 1
    /\ write < read
    /\ IsFull
    /\ calls > WORD

(***************************************************************************)
(* array.rs: the slots below len hold live elements.                       *)
(***************************************************************************)
\* The element h has not been destroyed and is not owned by a caller.  An
\* element of a type without destructor is plain data and cannot be destroyed.
ElemLive(h) == needs_drop => (a_drops[h] = 0 /\ h \notin a_out)

\* The first slot that still holds an element: the cursor of the
\* ArrayConsumer once the Array is moved into one.
LiveFrom == IF a_mode = "iter" THEN it_cursor ELSE 0

\* The slots [LiveFrom, len) of the Array hold live elements.
ArrSlotsLive ==
    \A i \in LiveFrom .. (a_len - 1) : a_inner[i] # Uninit /\ ElemLive(a_inner[i][1])

\* The slots [0, len) of the clone hold live elements.
CloneSlotsLive ==
    b_mode = "array" =>
        \A i \in 0 .. (b_len - 1) : b_inner[i] # Uninit /\ ElemLive(b_inner[i][1])

\* The elements in the slots below len of the Array the operation is called on.
ReceiverElems ==
    IF a_op' \in {"clone.push", "clone.pop", "clone.truncate", "clone.clear"}
    THEN {b_inner[i][1] : i \in {j \in 0 .. (b_len - 1) : b_inner[j] # Uninit}}
    ELSE {a_inner[i][1] : i \in {j \in LiveFrom .. (a_len - 1) : a_inner[j] # Uninit}}

\* C28: in every state reached through new, push, pop, swap_remove, truncate,
\* resize, resize_default, clear, clone, write, into_iter and the iterator's
\* next and drop, len is at most C and the slots below len (from the cursor on,
\* for an Array being iterated) are initialised and hold live elements, of the
\* Array and of its clone; and what an operation returns out of the Array or
\* drops was in one of those slots before the operation.
C28_SlotsBelowLenAreLive ==
    [][/\ a_len' <= C
       /\ b_len' <= C
       /\ ArrSlotsLive'
       /\ CloneSlotsLive'
       /\ \A k \in DOMAIN a_dropped' : a_dropped'[k] \in ReceiverElems
       /\ (a_op' \in {"pop", "swap_remove", "next", "clone.pop"} /\ a_ret' # None) =>
             a_ret'[1] \in ReceiverElems
    ]_vars

(***************************************************************************)
(* ring_buffer.rs: the cursors of the macro-made RingBuffer and the number *)
(* of elements between them.                                               *)
(***************************************************************************)
\* The number of elements between the cursors.
MLive == WrappingSub(m_write, m_read)

\* The elements the last operation took out of the buffer.
MTaken ==
    CASE m_op' = "pop" -> IF m_ret' = None THEN 0 ELSE 1
      [] m_op' = "clear" -> IF m_panic' THEN 0 ELSE MLive
      [] OTHER -> Len(m_dropped')

\* The elements the last operation put into the buffer.
MPut == IF m_op' = "push" /\ ~m_panic' THEN 1 ELSE 0

\* C29 (as claimed): read and write are indices below C, and the number of
\* live elements is (write - read) mod C, which is less than C.
C29_CursorsAreIndicesBelowC ==
    /\ m_read \in 0 .. (CAPACITY - 1)
    /\ m_write \in 0 .. (CAPACITY - 1)
    /\ MLive = (m_write - m_read) % CAPACITY
    /\ MLive < CAPACITY

\* C29 (amended): read and write are usize counters that wrap modulo 2^w and
\* are masked to a slot index below C only when a slot is addressed; each
\* operation moves write by at most one and read by at most C; the number of
\* live elements is (write - read) mod 2^w, it changes by what the operation
\* puts in and takes out, and it is at most C (C when the buffer is full).
C29_CursorsAreCountersLiveAtMostC ==
    [][/\ m_read' \in 0 .. (WORD - 1)
       /\ m_write' \in 0 .. (WORD - 1)
       /\ MMaskIdx(m_read') \in 0 .. (CAPACITY - 1)
       /\ MMaskIdx(m_write') \in 0 .. (CAPACITY - 1)
       /\ m_write' = (m_write + MPut) % WORD
       /\ m_read' = (m_read + MTaken) % WORD
       /\ MLive' = MLive + MPut - MTaken
       /\ MLive' \in 0 .. CAPACITY
       /\ (m_op' = "push" /\ ~m_panic' /\ MLive = CAPACITY) =>
             (MTaken = 1 /\ MLive' = CAPACITY)
    ]_vars

\* C29 witness: a full buffer of C live elements whose write cursor has
\* wrapped around 2^w and is numerically below its read cursor.
C29_Witness ==
    /\ m_op = "push"
    /\ ~m_panic
    /\ Len(m_dropped) = 1
    /\ MLive = CAPACITY
    /\ m_write < m_read
    /\ m_read >= CAPACITY

\* C30: in every state of the macro-made RingBuffer reached by push, pop and
\* clear, size() and is_full() return, is_empty() holds exactly when no
\* element is live, is_full() exactly when C elements are live, never both,
\* and a pop on a full buffer returns an element.
C30_FullAndEmptyAreDistinct ==
    [][/\ ~MSizePanics'
       /\ MIsEmpty' <=> MLive' = 0
       /\ MIsFull' <=> MLive' = CAPACITY
       /\ ~(MIsEmpty' /\ MIsFull')
       /\ (m_op' = "pop" /\ MLive = CAPACITY) => (m_ret' # None /\ MLive' = CAPACITY - 1)
    ]_vars

(***************************************************************************)
(* Split mode as an atomic bounded FIFO queue.  The abstract queue holds   *)
(* the accepted values no pop has returned; a try_push is counted as       *)
(* accepted when it stores write, a pop as returned when it stores read.   *)
(***************************************************************************)
AbsQueue == SubSeq(pushed, Len(popped) + 1, Len(pushed))

\* The abstract queue is what the ring holds between its cursors.
AbsQueueIsRing ==
    /\ IsPrefix(popped, pushed)
    /\ Len(AbsQueue) = Size
    /\ Len(AbsQueue) <= CAPACITY
    /\ \A i \in 1 .. Len(AbsQueue) :
          inner[MaskIdx(WrappingAdd(read, i - 1))] = Init_(AbsQueue[i])

\* The abstract enqueue of a queue of capacity C, taken by thread t.
AbsEnqueue(t) ==
    /\ Len(AbsQueue) < CAPACITY
    /\ AbsQueue' = Append(AbsQueue, p_val[t])
    /\ p_ret'[t] = None

\* The abstract dequeue, taken by thread t.
AbsDequeue(t) ==
    /\ AbsQueue # <<>>
    /\ AbsQueue' = Tail(AbsQueue)
    /\ c_ret'[t] = Some(Head(AbsQueue))

\* C31: with one producer and one consumer thread, every step of the
\* interleaving either leaves the abstract queue as it is, or is the cursor
\* store that ends a successful try_push and is one enqueue on a queue with
\* fewer than C elements, or is the cursor store that ends a successful pop
\* and is one dequeue of the oldest element; the abstract queue is at every
\* moment what the ring holds between its cursors.  try_push rejects exactly
\* if the abstract queue holds C elements when the producer loads read, and
\* pop returns nothing exactly if it is empty when the consumer loads write.
C31_SplitRefinesAtomicQueue ==
    [][/\ AbsQueueIsRing'
       /\ \/ AbsQueue' = AbsQueue /\ UNCHANGED <<read, write, pushed, popped>>
          \/ \E t \in SpscThreads :
                p_pc[t] = "store" /\ p_pc'[t] = "idle" /\ AbsEnqueue(t) /\ popped' = popped
          \/ \E t \in SpscThreads :
                c_pc[t] = "store" /\ c_pc'[t] = "idle" /\ AbsDequeue(t) /\ pushed' = pushed
       /\ \A t \in SpscThreads :
             /\ (p_pc[t] = "ld_read" /\ p_pc'[t] = "idle") =>
                   (Len(AbsQueue) = CAPACITY /\ p_ret'[t] = Some(p_val[t]) /\ AbsQueue' = AbsQueue)
             /\ (p_pc[t] = "ld_read" /\ p_pc'[t] = "slot") => Len(AbsQueue) < CAPACITY
             /\ (c_pc[t] = "ld_write" /\ c_pc'[t] = "idle") =>
                   (AbsQueue = <<>> /\ c_ret'[t] = None /\ AbsQueue' = AbsQueue)
             /\ (c_pc[t] = "ld_write" /\ c_pc'[t] = "slot") => AbsQueue # <<>>
             /\ (p_pc[t] = "idle" /\ p_pc'[t] = "idle" /\ c_pc[t] = "idle" /\ c_pc'[t] = "idle")
                   => AbsQueue' = AbsQueue
    ]_vars

\* C31 witness: a try_push was rejected because the abstract queue held C
\* elements, while the pop that will free a slot has read it and not yet
\* stored read; every slot has been used more than once.
C31_Witness ==
    /\ p_pc[1] = "idle"
    /\ p_ret[1] # None
    /\ c_pc[1] = "store"
    /\ c_val[1] = Head(AbsQueue)
    /\ Len(AbsQueue) = CAPACITY
    /\ Len(popped) >= CAPACITY

(***************************************************************************)
(* array.rs: an Array and its clone until both are dropped.                *)
(***************************************************************************)
\* Drop for Array, of the clone
\*   self.clear();
CloneDrop ==
    /\ b_mode = "array"
    /\ b_mode' = "gone"
    /\ a_op' = "clone.drop"
    /\ a_arg' = <<>>
    /\ b_len' = 0
    /\ b_inner' = [i \in ArraySlots |-> IF i < b_len THEN Uninit ELSE b_inner[i]]
    /\ IF ~needs_drop
       THEN a_dropped' = <<>>
       ELSE \E d \in [1 .. b_len -> Values] :
               /\ \A i \in 1 .. b_len : d[i] \in BSlotValues(b_len - i)
               /\ a_dropped' = d
    /\ a_drops' = DropRuns(a_dropped')
    /\ a_ret' = None
    /\ a_panic' = FALSE
    /\ UNCHANGED <<calls, a_stored, a_out, a_len, a_inner, a_mode, runVars, iterVars, outsideArray>>

NextArrayCloneDrop ==
    \/ ArrayPush
    \/ ArrPop
    \/ ArrTruncate
    \/ ArrClone
    \/ ClonePop
    \/ CloneTruncate
    \/ ArrDrop
    \/ CloneDrop

SpecArrayCloneDrop == ArrayInit /\ [][NextArrayCloneDrop]_vars

\* The element resources held in the slots below len of the clone.
CloneElems == {b_inner[i][1] : i \in {j \in 0 .. (b_len - 1) : b_inner[j] # Uninit}}

\* The element resources held in the slots below len of the original.
ArrElems == {a_inner[i][1] : i \in {j \in 0 .. (a_len - 1) : a_inner[j] # Uninit}}

\* C32: for an element type that owns a resource, clone() gives the clone
\* elements of its own, none of them a resource the original holds; no
\* resource is destroyed twice, whatever pop, truncate and drop do on the
\* original and the clone and in whatever order; and once both are dropped,
\* every element ever stored was either handed to the caller or destroyed
\* exactly once.
C32_CloneOwnsItsElements ==
    [][needs_drop =>
          /\ a_op' = "clone" =>
                /\ b_len' = a_len
                /\ \A i \in 0 .. (b_len' - 1) : b_inner'[i] # Uninit
                /\ CloneElems' \cap ArrElems' = {}
          /\ \A h \in Values : a_drops'[h] <= 1
          /\ \A h \in Values : (a_drops'[h] > 0) => h \notin a_out'
          /\ (a_mode' = "gone" /\ b_mode' = "gone") =>
                \A h \in a_stored' : (h \in a_out') # (a_drops'[h] = 1)
    ]_vars

\* The part of C32 about destruction alone: no element resource is destroyed
\* twice, and none that a caller received is destroyed by a container.
C32_NoDoubleDrop ==
    needs_drop =>
        \A h \in Values : a_drops[h] <= 1 /\ (a_drops[h] > 0 => h \notin a_out)

(***************************************************************************)
(* ring_buffer.rs: size() across the wrap of the write cursor.             *)
(***************************************************************************)
\* C33: in every state of the macro-made RingBuffer size() returns: its
\* subtraction write - read does not fail on underflow, and gives the number
\* of live elements, between 0 and C, also once write has wrapped around 2^w
\* and read has not; and push and clear, which call size(), do not fail.
C33_MacroSizeNeverUnderflows ==
    /\ ~MSizePanics
    /\ MSize \in 0 .. CAPACITY
    /\ m_op \in {"push", "clear"} => ~m_panic

(***************************************************************************)
(* ring.rs: one ring through its life: owning mode, split(), the handles'  *)
(* operations, the end of the handles, owning mode again, any number of    *)
(* times, and the drop of the ring.  split() borrows the ring mutably for  *)
(* the life of the handles, so owning operations run only between splits.  *)
(* While the ring is split, pushed holds the values the ring held at       *)
(* split() followed by those try_push accepted since, and popped those pop *)
(* returned since.                                                         *)
(***************************************************************************)
\* The handles of a split are alive.
InSplit == o_op = "split"

\* New handles: no operation in progress, none made.
NewHandles ==
    /\ p_pc' = [t \in Threads |-> "idle"]
    /\ p_idx' = [t \in Threads |-> 0]
    /\ p_val' = [t \in Threads |-> 0]
    /\ p_ret' = [t \in Threads |-> None]
    /\ p_steps' = [t \in Threads |-> 0]
    /\ c_pc' = [t \in Threads |-> "idle"]
    /\ c_idx' = [t \in Threads |-> 0]
    /\ c_val' = [t \in Threads |-> 0]
    /\ c_ret' = [t \in Threads |-> None]
    /\ c_steps' = [t \in Threads |-> 0]

\* RingSplit with a fault: the handles are given a ring with both cursors at 0.
RingSplit_Reset ==
    /\ OwnAlive
    /\ ~InSplit
    /\ o_op' = "split"
    /\ o_ret' = None
    /\ o_dropped' = <<>>
    /\ RunOff
    /\ NewHandles
    /\ pushed' = Owned
    /\ popped' = <<>>
    /\ read' = 0
    /\ write' = 0
    /\ UNCHANGED <<inner, calls, typeVars, macroVars, arrVars>>

\* RingBuffer::split
\*   (Producer(self), Consumer(self))
RingSplit ==
    /\ OwnAlive
    /\ ~InSplit
    /\ o_op' = "split"
    /\ o_ret' = None
    /\ o_dropped' = <<>>
    /\ RunOff
    /\ NewHandles
    /\ pushed' = Owned
    /\ popped' = <<>>
    /\ UNCHANGED <<ringVars, calls, typeVars, macroVars, arrVars>>

\* The Producer and the Consumer are dropped, which ends the borrow of the
\* ring; no operation of theirs is in progress then.
SplitEnd ==
    /\ InSplit
    /\ Quiescent
    /\ o_op' = "joined"
    /\ NewHandles
    /\ UNCHANGED <<ringVars, calls, pushed, popped, o_ret, o_dropped, o_phase, o_run, o_got,
                   typeVars, macroVars, arrVars>>

NextRingLife ==
    \/ OwnAlive /\ ~InSplit /\ NextOwn
    \/ ~InSplit /\ OwnDrop
    \/ RingSplit
    \/ InSplit /\ NextSplit
    \/ SplitEnd

\* A new ring; the build's overflow checks play no part in ring.rs, whose
\* cursor arithmetic is all wrapping_add / wrapping_sub.
RingLifeInit == Init /\ ~overflow_checks

SpecRingLife == RingLifeInit /\ [][NextRingLife]_vars

\* C34: the handles of a split and the owning methods act on one state.
\* Whenever no handle operation is in progress during a split, and when the
\* handles are finished, the ring holds, oldest first, exactly the values it
\* held at split() plus those accepted by try_push minus those returned by
\* pop, and size() is their number.  The owning operations that follow act on
\* them: pop returns the oldest unconsumed value and leaves the rest in
\* order, and for an element type with a destructor clear() and the drop of
\* the ring drop each of them exactly once.
C34_SplitAndOwningShareState ==
    [][/\ ((InSplit' /\ Quiescent') \/ o_op' = "joined") =>
             /\ IsPrefix(popped', pushed')
             /\ Owned' = AbsQueue'
             /\ Size' = Len(pushed') - Len(popped')
       /\ (~InSplit' /\ o_op' = "pop") =>
             IF Owned = <<>> THEN o_ret' = None /\ Owned' = <<>>
             ELSE o_ret' = Some(Owned[1]) /\ Owned' = Tail(Owned)
       /\ (o_op = "joined" /\ o_op' = "pop") =>
             o_ret' = (IF AbsQueue = <<>> THEN None ELSE Some(Head(AbsQueue)))
       /\ (~InSplit' /\ o_op' \in {"clear", "drop"}) =>
             /\ Owned' = <<>>
             /\ Size' = 0
             /\ needs_drop =>
                   /\ o_dropped' = Owned
                   /\ \A i, j \in 1 .. Len(o_dropped') : o_dropped'[i] = o_dropped'[j] => i = j
       /\ (o_op = "joined" /\ o_op' \in {"clear", "drop"} /\ needs_drop) =>
             o_dropped' = AbsQueue
       /\ (~InSplit' /\ o_op' \in {"push", "try_push"}) =>
             \E k \in 0 .. 1 : \E n \in 0 .. 1 :
                 Owned' = SubSeq(Owned, 1 + k, Len(Owned)) \o SubSeq(<<calls>>, 1, n)
    ]_vars

\* C34 witness: an owning pop, after a split whose handles pushed and popped,
\* has returned the oldest value the consumer left in the ring, the others
\* stay in order, and the cursors are wrapped around 2^w.
C34_Witness ==
    /\ o_op = "pop"
    /\ Len(popped) >= 1
    /\ Len(pushed) > Len(popped) + 1
    /\ o_ret = Some(pushed[Len(popped) + 1])
    /\ Owned = SubSeq(pushed, Len(popped) + 2, Len(pushed))
    /\ write < read
====
